---------------------------- MODULE Spec2Model ----------------------------
(***************************************************************************)
(* A model of the NostrKV Connect request pipeline                         *)
(* (humansinstitute/nostr-kv-connect): the namespace guard, the validators,*)
(* the sliding-window rate and byte budgets, the idempotency cache, the    *)
(* protocol router and the key-value adapter, as the TypeScript sources    *)
(* under src/ implement them.                                              *)
(*                                                                         *)
(* Text is modelled as a sequence of characters, a character being a       *)
(* one-element TLA+ string ("a", ":", ...) or the name of an unprintable   *)
(* one ("NUL", "LF", "CR", "TAB", "SP", "BEL", "DEL").  Byte strings are   *)
(* sequences of numbers 0..255.                                            *)
(***************************************************************************)
EXTENDS Integers, Sequences, FiniteSets, Bags, TLC

VARIABLES
    now,                \* Date.now(), in milliseconds
    registry,           \* the parsed .nostrkv-connections.json: pubkey -> entry
    connections,        \* NostrKVServer.connections: pubkey -> ClientConnection
    namespaceManagers,  \* ProtocolRouter.namespaceManagers: namespace -> manager
    store,              \* the Redis keyspace: full key -> [val, exp], the audit list included
    cache,              \* IdempotencyCache.cache: <<pubkey, id>> -> [response, timestamp]
    tasks,              \* handleRequest calls suspended on their backend reply (a bag)
    events,             \* number of inbound events handled so far
    lastCall,           \* history: the KVAdapter call issued by the latest request
    lastResp,           \* history: the latest response handleRequest returned
    accepted,           \* history: pubkey -> timestamps at which checkLimit accepted
    traffic,            \* history: pubkey -> <<timestamp, request bytes, response bytes>>
    firstReply,         \* history: <<pubkey, id>> -> the request first handled, its response, and when
    published,          \* number of response events published so far
    lastEvent,          \* history: the latest inbound event and what became of it
    dmCrypto,           \* DMCrypto: the availability flags of the two schemes
    env,                \* what the encryption library and the relays do at present
    lastSent,           \* history: the latest response event handed to the relays
    probe,              \* input and result of a pure function under test
    lifecycle           \* the process: isShuttingDown and what shutdown has done so far

vars == <<now, registry, connections, namespaceManagers, store, cache, tasks,
          events, lastCall, lastResp, accepted, traffic, firstReply, published,
          lastEvent, dmCrypto, env, lastSent, probe,
                   lifecycle>>

serverVars == <<now, registry, connections, namespaceManagers, store, cache,
                tasks, events, lastCall, lastResp, accepted, traffic, firstReply,
                published, lastEvent, dmCrypto, env, lastSent, lifecycle>>

-----------------------------------------------------------------------------
(* Text helpers *)

\* s.startsWith(p)
StartsWith(s, p) ==
    /\ Len(p) <= Len(s)
    /\ SubSeq(s, 1, Len(p)) = p

\* s.endsWith(p)
EndsWith(s, p) ==
    /\ Len(p) <= Len(s)
    /\ SubSeq(s, Len(s) - Len(p) + 1, Len(s)) = p

\* s.includes(p)
Includes(s, p) ==
    \E i \in 1..(Len(s) - Len(p) + 1) : SubSeq(s, i, i + Len(p) - 1) = p

\* s.indexOf(c), 0-based, -1 when absent
IndexOf(s, c) ==
    IF \E i \in 1..Len(s) : s[i] = c
    THEN (CHOOSE i \in 1..Len(s) : s[i] = c /\ \A j \in 1..(i - 1) : s[j] # c) - 1
    ELSE 0 - 1

\* the characters the regular expression class \s matches, among those modelled
WhitespaceChars == {"SP", "TAB", "LF", "CR"}

\* the class [\x00-\x08\x0B\x0C\x0E-\x1F\x7F], among the characters modelled
ControlChars == {"NUL", "BEL", "DEL"}

Null == <<>>
Some(x) == <<x>>

-----------------------------------------------------------------------------
(* NamespaceManager (src/src/namespacing/ns.ts, second version) *)

\* constructor: the namespace with a colon ensured at its end
NormalizeNamespace(ns) == IF EndsWith(ns, <<":">>) THEN ns ELSE ns \o <<":">>

escapePatterns ==
    { <<".", ".">>, <<"NUL">>, <<"LF">>, <<"CR">>, <<"*">>, <<"?">>, <<"[">>,
      <<"]">>, <<"\\">>, <<"$", "(", "(">>, <<"$", "{">>, <<".", ".", "/">>,
      <<".", ".", "\\">>, <<"e", "v", "a", "l", "(">>,
      <<"e", "x", "e", "c", "(">> }

\* the three suspiciousPatterns: a control character, only whitespace,
\* three or more dots in a row
suspiciousPatterns(key) ==
    \/ \E i \in 1..Len(key) : key[i] \in ControlChars
    \/ \A i \in 1..Len(key) : key[i] \in WhitespaceChars
    \/ Includes(key, <<".", ".", ".">>)

\* a faulty hasEscapeAttempt: the suspicious patterns are not looked for
hasEscapeAttemptLax(key) ==
    \E p \in escapePatterns : Includes(key, p)

hasEscapeAttempt(key) ==
    \/ \E p \in escapePatterns : Includes(key, p)
    \/ suspiciousPatterns(key)

\* a faulty hasWrongNamespace: a key that starts with a colon is taken to
\* name a namespace too
hasWrongNamespaceZero(namespace, key) ==
    LET colonIndex == IndexOf(key, ":") IN
    IF colonIndex >= 0
    THEN SubSeq(key, 1, colonIndex + 1) # namespace
    ELSE FALSE

hasWrongNamespace(namespace, key) ==
    LET colonIndex == IndexOf(key, ":") IN
    IF colonIndex > 0
    THEN SubSeq(key, 1, colonIndex + 1) # namespace
    ELSE FALSE

\* a faulty ensureNamespace: a bare key is passed on without the prefix
ensureNamespaceBare(namespace, key) ==
    IF key = <<>> THEN Null
    ELSE IF hasEscapeAttempt(key) THEN Null
    ELSE IF StartsWith(key, namespace) THEN Some(key)
    ELSE IF hasWrongNamespace(namespace, key) THEN Null
    ELSE Some(key)

\* the fully-qualified key as Some(key), or Null for a rejected key;
\* namespace is the manager's (normalized) namespace
ensureNamespace(namespace, key) ==
    IF key = <<>> THEN Null
    ELSE IF hasEscapeAttempt(key) THEN Null
    ELSE IF StartsWith(key, namespace) THEN Some(key)
    ELSE IF hasWrongNamespace(namespace, key) THEN Null
    ELSE Some(namespace \o key)

-----------------------------------------------------------------------------
(* Limits: a limit a connection record does not carry is undefined in the  *)
(* code, and every comparison of a number with undefined is false.          *)

Undefined == 0 - 1

\* x > limit, as JavaScript evaluates it
Exceeds(x, limit) == limit # Undefined /\ x > limit

\* x >= limit, as JavaScript evaluates it
Reaches(x, limit) == limit # Undefined /\ x >= limit

-----------------------------------------------------------------------------
(* Validator (src/src/limits/budget.ts, second part) *)

validateKey(key, maxLength) ==
    IF key = <<>> THEN FALSE
    ELSE IF Exceeds(Len(key), maxLength) THEN FALSE
    ELSE IF Includes(key, <<"NUL">>) THEN FALSE
    ELSE TRUE

validateMgetCount(count, maxCount) ==
    IF count <= 0 THEN FALSE
    ELSE IF Exceeds(count, maxCount) THEN FALSE
    ELSE TRUE

-----------------------------------------------------------------------------
(* Base-64, as Buffer.from(text, 'base64') and buf.toString('base64') *)

B64 ==
    << "A", "B", "C", "D", "E", "F", "G", "H", "I", "J", "K", "L", "M", "N",
       "O", "P", "Q", "R", "S", "T", "U", "V", "W", "X", "Y", "Z",
       "a", "b", "c", "d", "e", "f", "g", "h", "i", "j", "k", "l", "m", "n",
       "o", "p", "q", "r", "s", "t", "u", "v", "w", "x", "y", "z",
       "0", "1", "2", "3", "4", "5", "6", "7", "8", "9", "+", "/" >>

B64Chars == {B64[i] : i \in 1..64}

B64Val(c) == (CHOOSE i \in 1..64 : B64[i] = c) - 1

\* buf.toString('base64'): three bytes to four characters, padded with "="
RECURSIVE Base64Encode(_)
Base64Encode(bytes) ==
    IF Len(bytes) = 0 THEN <<>>
    ELSE IF Len(bytes) = 1 THEN
        << B64[(bytes[1] \div 4) + 1], B64[((bytes[1] % 4) * 16) + 1], "=", "=" >>
    ELSE IF Len(bytes) = 2 THEN
        << B64[(bytes[1] \div 4) + 1],
           B64[((bytes[1] % 4) * 16) + (bytes[2] \div 16) + 1],
           B64[((bytes[2] % 16) * 4) + 1], "=" >>
    ELSE
        << B64[(bytes[1] \div 4) + 1],
           B64[((bytes[1] % 4) * 16) + (bytes[2] \div 16) + 1],
           B64[((bytes[2] % 16) * 4) + (bytes[3] \div 64) + 1],
           B64[(bytes[3] % 64) + 1] >>
        \o Base64Encode(SubSeq(bytes, 4, Len(bytes)))

\* the characters the decoder reads: it skips what is not in the alphabet
\* and stops at the first "="
RECURSIVE Base64Significant(_)
Base64Significant(text) ==
    IF Len(text) = 0 \/ Head(text) = "=" THEN <<>>
    ELSE IF Head(text) \in B64Chars
         THEN <<B64Val(Head(text))>> \o Base64Significant(Tail(text))
         ELSE Base64Significant(Tail(text))

RECURSIVE Base64Bytes(_)
Base64Bytes(q) ==
    IF Len(q) < 2 THEN <<>>
    ELSE IF Len(q) = 2 THEN << (q[1] * 4) + (q[2] \div 16) >>
    ELSE IF Len(q) = 3 THEN
        << (q[1] * 4) + (q[2] \div 16), ((q[2] % 16) * 16) + (q[3] \div 4) >>
    ELSE
        << (q[1] * 4) + (q[2] \div 16), ((q[2] % 16) * 16) + (q[3] \div 4),
           ((q[3] % 4) * 64) + q[4] >>
        \o Base64Bytes(SubSeq(q, 5, Len(q)))

\* Buffer.from(text, 'base64'); it never throws
Base64Decode(text) == Base64Bytes(Base64Significant(text))

\* the characters that stored values are made of
ValueChars == {"a", "b", "c", "d", "!"}

\* the ASCII code of the characters that stored values and keys are made of
Ascii ==
    ("NUL" :> 0) @@ ("BEL" :> 7) @@ ("TAB" :> 9) @@ ("LF" :> 10) @@ ("CR" :> 13)
    @@ ("SP" :> 32) @@ ("!" :> 33) @@ ("$" :> 36) @@ ("(" :> 40) @@ ("*" :> 42)
    @@ ("." :> 46) @@ ("1" :> 49) @@ ("2" :> 50) @@ ("3" :> 51) @@ (":" :> 58)
    @@ ("?" :> 63) @@ ("A" :> 65) @@ ("B" :> 66) @@ ("[" :> 91) @@ ("\\" :> 92)
    @@ ("]" :> 93) @@ ("_" :> 95) @@ ("a" :> 97) @@ ("b" :> 98) @@ ("c" :> 99)
    @@ ("d" :> 100) @@ ("e" :> 101) @@ ("i" :> 105) @@ ("k" :> 107)
    @@ ("l" :> 108) @@ ("p" :> 112) @@ ("r" :> 114) @@ ("s" :> 115)
    @@ ("t" :> 116) @@ ("u" :> 117) @@ ("v" :> 118) @@ ("x" :> 120)
    @@ ("{" :> 123) @@ ("DEL" :> 127)

\* the string ioredis returns for a stored byte string (UTF-8 decoding,
\* the identity on the ASCII bytes modelled)
Utf8Text(bytes) ==
    [i \in 1..Len(bytes) |-> CHOOSE c \in DOMAIN Ascii : Ascii[c] = bytes[i]]

\* Buffer.from(text): the UTF-8 bytes of a string
Utf8Bytes(text) == [i \in 1..Len(text) |-> Ascii[text[i]]]

validateValue(value, maxSize) ==
    IF value = <<>> THEN TRUE
    ELSE ~Exceeds(Len(Base64Decode(value)), maxSize)

\* Validator.validateNamespace: non-empty, ends with a colon, and matches
\* /^[a-zA-Z0-9_-]+:$/ (no caller in the server)
validateNamespace(namespace) ==
    /\ namespace # <<>>
    /\ EndsWith(namespace, <<":">>)
    /\ Len(namespace) > 1
    /\ \A i \in 1..(Len(namespace) - 1) :
           \/ namespace[i] = "-"
           \/ /\ namespace[i] \in DOMAIN Ascii
              /\ Ascii[namespace[i]] \in (48..57) \cup (65..90) \cup (97..122) \cup {95}

-----------------------------------------------------------------------------
(* The Redis keyspace and KVAdapter (src/src/redis/kv.ts)                  *)
(* store maps a key to [val |-> bytes, exp |-> time of expiry or NoExpiry]; *)
(* a key that holds a list maps to [val |-> the items, exp, list |-> TRUE]. *)

NoExpiry == 0 - 1

\* a key Redis still holds at time t
Live(st, t, key) ==
    /\ key \in DOMAIN st
    /\ (st[key].exp = NoExpiry \/ t < st[key].exp)

Remove(st, key) == [k \in (DOMAIN st) \ {key} |-> st[k]]

Put(st, key, entry) == (key :> entry) @@ Remove(st, key)

isBase64(str) == Base64Encode(Base64Decode(str)) = str

\* the base-64 text a stored byte string is returned as
AsReturned(bytes) ==
    LET value == Utf8Text(bytes) IN
    IF isBase64(value) THEN value ELSE Base64Encode(Utf8Bytes(value))

\* the key holds a list: GET answers WRONGTYPE, which ioredis throws
WrongType(st, t, key) == Live(st, t, key) /\ "list" \in DOMAIN st[key]

\* KVAdapter.get: Some(base-64 text) or Null
kvGet(st, t, key) ==
    IF ~Live(st, t, key) THEN Null ELSE Some(AsReturned(st[key].val))

\* KVAdapter.set: ttl is Null or Some(seconds)
kvSet(st, t, key, value, ttl) ==
    LET decodedValue == Base64Decode(value) IN
    IF ttl # Null /\ ttl[1] > 0
    THEN Put(st, key, [val |-> decodedValue, exp |-> t + (ttl[1] * 1000)])
    ELSE Put(st, key, [val |-> decodedValue, exp |-> NoExpiry])

\* KVAdapter.del: the number of keys deleted and the keyspace after it
kvDelCount(st, t, key) == IF Live(st, t, key) THEN 1 ELSE 0

kvDel(st, key) == Remove(st, key)

kvExists(st, t, key) == Live(st, t, key)

\* KVAdapter.mget
kvMget(st, t, keys) ==
    [i \in 1..Len(keys) |->
        IF WrongType(st, t, keys[i]) THEN Null ELSE kvGet(st, t, keys[i])]

\* KVAdapter.expire: whether the expiry was set, and the keyspace after it
kvExpireOk(st, t, key) == Live(st, t, key)

kvExpire(st, t, key, ttl) ==
    IF Live(st, t, key)
    THEN [st EXCEPT ![key].exp = t + (ttl * 1000)]
    ELSE st

\* KVAdapter.ttl: seconds left, -1 without expiry, -2 without key
kvTtl(st, t, key) ==
    IF ~Live(st, t, key) THEN 0 - 2
    ELSE IF st[key].exp = NoExpiry THEN 0 - 1
    ELSE (st[key].exp - t + 500) \div 1000

-----------------------------------------------------------------------------
(* RateLimiter (src/unnamed/part_004) and BudgetManager                    *)
(* (src/src/limits/budget.ts).  A connection is a record                    *)
(*   [pubkey, namespace, allowedMethods, limits, rateLimitState]            *)
(* with rateLimitState = [requests |-> timestamps, bytes |-> records];      *)
(* the state the code creates on first use starts as two empty lists.       *)

rateWindowMs == 60000

budgetWindowMs == 60000

\* requests.filter(timestamp => now - timestamp < windowMs)
RequestsInWindow(requests, t) ==
    LET Keep(timestamp) == t - timestamp < rateWindowMs
    IN  SelectSeq(requests, Keep)

\* a faulty RateLimiter.checkLimit: one request too many is let through
checkLimitOkLoose(connection, t) ==
    ~Exceeds(Len(RequestsInWindow(connection.rateLimitState.requests, t)),
             connection.limits.mps)

\* RateLimiter.checkLimit: whether the request is accepted
checkLimitOk(connection, t) ==
    ~Reaches(Len(RequestsInWindow(connection.rateLimitState.requests, t)),
             connection.limits.mps)

\* a faulty RateLimiter.checkLimit: the timestamp of a rejected request is
\* pushed as well
checkLimitCountsAll(connection, t) ==
    [connection EXCEPT !.rateLimitState.requests =
        Append(RequestsInWindow(connection.rateLimitState.requests, t), t)]

\* RateLimiter.checkLimit: the connection after the call
checkLimit(connection, t) ==
    LET kept == RequestsInWindow(connection.rateLimitState.requests, t) IN
    [connection EXCEPT !.rateLimitState.requests =
        IF checkLimitOk(connection, t) THEN Append(kept, t) ELSE kept]

\* bytes.filter(record => now - record.timestamp < windowMs)
BytesInWindow(bytes, t) ==
    LET Keep(record) == t - record.timestamp < budgetWindowMs
    IN  SelectSeq(bytes, Keep)

RECURSIVE SumBytes(_)
SumBytes(bytes) ==
    IF bytes = <<>> THEN 0 ELSE Head(bytes).bytes + SumBytes(Tail(bytes))

\* BudgetManager.checkBudget: whether the request is within the budget
checkBudgetOk(connection, requestBytes, t) ==
    LET currentUsage == SumBytes(BytesInWindow(connection.rateLimitState.bytes, t))
    IN  ~Exceeds(currentUsage + requestBytes, connection.limits.bps)

\* BudgetManager.checkBudget: the connection after the call (old records purged)
checkBudget(connection, t) ==
    [connection EXCEPT !.rateLimitState.bytes = BytesInWindow(@, t)]

\* BudgetManager.consumeBudget: the record is pushed, then getCurrentUsage
\* (evaluated for the debug log line) purges the old records
consumeBudget(connection, bytes, t) ==
    [connection EXCEPT !.rateLimitState.bytes =
        BytesInWindow(Append(@, [timestamp |-> t, bytes |-> bytes]), t)]

-----------------------------------------------------------------------------
(* IdempotencyCache (src/src/relays/relayPool.ts, second part) *)

cacheWindowMs == 60000

\* a faulty getCacheKey: the request id is left out of the key
getCacheKeyNoId(clientPubkey, requestId) == <<clientPubkey, "">>

getCacheKey(clientPubkey, requestId) == <<clientPubkey, requestId>>

\* a faulty IdempotencyCache.get: an entry is dropped when it is exactly
\* 60 seconds old
cacheGetEarly(c, clientPubkey, requestId, t) ==
    LET key == getCacheKey(clientPubkey, requestId) IN
    IF key \notin DOMAIN c THEN Null
    ELSE IF t - c[key].timestamp >= cacheWindowMs THEN Null
    ELSE Some(c[key].response)

\* IdempotencyCache.get: Some(response) or Null
cacheGet(c, clientPubkey, requestId, t) ==
    LET key == getCacheKey(clientPubkey, requestId) IN
    IF key \notin DOMAIN c THEN Null
    ELSE IF t - c[key].timestamp > cacheWindowMs THEN Null
    ELSE Some(c[key].response)

\* a faulty IdempotencyCache.get: a hit refreshes the timestamp of the entry
cacheAfterGetRefresh(c, clientPubkey, requestId, t) ==
    LET key == getCacheKey(clientPubkey, requestId) IN
    IF key \in DOMAIN c
    THEN IF t - c[key].timestamp > cacheWindowMs
         THEN [k \in (DOMAIN c) \ {key} |-> c[k]]
         ELSE [c EXCEPT ![key].timestamp = t]
    ELSE c

\* IdempotencyCache.get: the cache after the call (an expired entry is deleted)
cacheAfterGet(c, clientPubkey, requestId, t) ==
    LET key == getCacheKey(clientPubkey, requestId) IN
    IF key \in DOMAIN c /\ t - c[key].timestamp > cacheWindowMs
    THEN [k \in (DOMAIN c) \ {key} |-> c[k]]
    ELSE c

\* IdempotencyCache.set
cacheSet(c, clientPubkey, requestId, response, t) ==
    LET key == getCacheKey(clientPubkey, requestId) IN
    (key :> [response |-> response, timestamp |-> t])
        @@ [k \in (DOMAIN c) \ {key} |-> c[k]]

\* IdempotencyCache.cleanup, run by the interval timer
cacheCleanup(c, t) ==
    [k \in {k \in DOMAIN c : ~(t - c[k].timestamp > cacheWindowMs)} |-> c[k]]

-----------------------------------------------------------------------------
(* DMCrypto (src/src/protocol/schema.ts, lines 135-208).  A ciphertext is a *)
(* record whose field scheme says under which scheme it was encrypted:     *)
(* "nip44" (V2), "nip04" (V1) or "none" (nothing either scheme decrypts).   *)
(* A crypto object is [nip44Available, nip04Available]; e tells whether    *)
(* the library's nip44 and nip04 encryption calls succeed at present.      *)

\* config.nostr.encryptionPref === 'nip44' (the default of loadConfig)
preferNip44 == TRUE

\* the fields of a new DMCrypto
NewDMCrypto == [nip44Available |-> TRUE, nip04Available |-> TRUE]

\* encrypt: the scheme used, "failed" when it throws, and the flag
\* nip44Available as the call leaves it
encrypt(crypto, e) ==
    IF preferNip44 /\ crypto.nip44Available /\ e.nip44Encrypts
    THEN [method |-> "nip44", nip44Available |-> crypto.nip44Available]
    ELSE [method |-> IF e.nip04Encrypts THEN "nip04" ELSE "failed",
          nip44Available |-> IF preferNip44 /\ crypto.nip44Available
                             THEN FALSE
                             ELSE crypto.nip44Available]

\* decrypt: Some(plaintext), or Null when it throws
decrypt(crypto, content) ==
    IF crypto.nip44Available /\ content.scheme = "nip44" THEN Some(content)
    ELSE IF content.scheme = "nip04" THEN Some(content)
    ELSE Null

getCapabilities(crypto) ==
    [nip44 |-> crypto.nip44Available, nip04 |-> crypto.nip04Available]

-----------------------------------------------------------------------------
(* Requests and responses (src/src/types.ts) and their JSON text lengths.  *)
(* A request is [method, id, key, value, ttl, keys]; key, value, ttl and   *)
(* keys are Null when params does not hold them.  A response is one record *)
(* shape for every result, so that two responses can be compared:          *)
(*   code  "OK" (error is null) or the error code                           *)
(*   msg, mmethod, mkey   the error message and what is interpolated in it  *)
(*   kind  which result object: "info", "value", "ok", "deleted",          *)
(*         "exists", "values", "ttl", or "none" (result is null)           *)

TextLen ==
    [s \in {"", "get_info", "get", "set", "del", "exists", "mget", "expire",
            "ttl", "scan", "r1", "r2", "r3", "r4",
            "RESTRICTED", "RATE_LIMITED", "PAYLOAD_TOO_LARGE", "INVALID_KEY",
            "INVALID_VALUE", "NOT_IMPLEMENTED", "INTERNAL",
            "Method  not allowed", "Rate limit exceeded",
            "Byte budget exceeded", "Method  not implemented",
            "Internal server error", "Key too long or invalid",
            "Key outside namespace", "Failed to get value", "Value too large",
            "Failed to set value", "Failed to delete key",
            "Failed to check existence", "Too many keys in mget",
            "Key too long: ", "Key outside namespace: ",
            "Failed to get multiple values", "Failed to set expiration",
            "Failed to get TTL"} |->
        CASE s = "" -> 0
          [] s \in {"r1", "r2", "r3", "r4"} -> 2
          [] s \in {"get", "set", "del", "ttl"} -> 3
          [] s \in {"mget", "scan"} -> 4
          [] s \in {"exists", "expire"} -> 6
          [] s \in {"get_info", "INTERNAL"} -> 8
          [] s = "RESTRICTED" -> 10
          [] s = "INVALID_KEY" -> 11
          [] s = "RATE_LIMITED" -> 12
          [] s = "INVALID_VALUE" -> 13
          [] s = "Key too long: " -> 14
          [] s \in {"NOT_IMPLEMENTED", "Value too large"} -> 15
          [] s \in {"PAYLOAD_TOO_LARGE", "Failed to get TTL"} -> 17
          [] s \in {"Method  not allowed", "Rate limit exceeded",
                    "Failed to get value", "Failed to set value"} -> 19
          [] s \in {"Byte budget exceeded", "Failed to delete key"} -> 20
          [] s \in {"Internal server error", "Key outside namespace",
                    "Too many keys in mget"} -> 21
          [] s \in {"Method  not implemented", "Key too long or invalid",
                    "Key outside namespace: "} -> 23
          [] s = "Failed to set expiration" -> 24
          [] s = "Failed to check existence" -> 25
          [] s = "Failed to get multiple values" -> 29]

\* the length of one character inside a JSON string
EscapedLen(c) ==
    IF c \in {"NUL", "BEL"} THEN 6
    ELSE IF c \in {"\\", "LF", "CR", "TAB"} THEN 2
    ELSE 1

RECURSIVE CharsLen(_)
CharsLen(text) ==
    IF text = <<>> THEN 0 ELSE EscapedLen(Head(text)) + CharsLen(Tail(text))

\* JSON.stringify of a string held as characters
JsonStringLen(text) == 2 + CharsLen(text)

RECURSIVE NumberLen(_)
NumberLen(n) ==
    IF n < 0 THEN 1 + NumberLen(0 - n)
    ELSE IF n < 10 THEN 1
    ELSE 1 + NumberLen(n \div 10)

\* a JSON array of strings (or nulls): the items as Some(text) or Null
RECURSIVE ItemsLen(_)
ItemsLen(items) ==
    IF items = <<>> THEN 0
    ELSE (IF Head(items) = Null THEN 4 ELSE JsonStringLen(Head(items)[1]))
         + (IF Len(items) > 1 THEN 1 ELSE 0)
         + ItemsLen(Tail(items))

JsonArrayLen(items) == 2 + ItemsLen(items)

\* the members of params, as the clients write them: key, value, ttl, keys
ParamsLen(request) ==
    LET members ==
            (IF request.key # Null THEN <<6 + JsonStringLen(request.key[1])>> ELSE <<>>)
         \o (IF request.value # Null THEN <<8 + JsonStringLen(request.value[1])>> ELSE <<>>)
         \o (IF request.ttl # Null THEN <<6 + NumberLen(request.ttl[1])>> ELSE <<>>)
         \o (IF request.keys # Null
             THEN <<7 + JsonArrayLen([i \in 1..Len(request.keys[1]) |->
                                          Some(request.keys[1][i])])>>
             ELSE <<>>)
        total[i \in 0..Len(members)] ==
            IF i = 0 THEN 0 ELSE members[i] + total[i - 1]
    IN  2 + total[Len(members)] + (IF Len(members) > 1 THEN Len(members) - 1 ELSE 0)

\* JSON.stringify(request).length for {"method":..,"params":..,"id":..}
RequestSize(request) ==
    10 + (2 + TextLen[request.method]) + 10 + ParamsLen(request)
       + 6 + (2 + TextLen[request.id]) + 1

\* the JSON array of a set of method names
RECURSIVE MethodNamesLen(_)
MethodNamesLen(methods) ==
    IF methods = {} THEN 0
    ELSE LET m == CHOOSE x \in methods : TRUE
         IN  2 + TextLen[m] + (IF methods = {m} THEN 0 ELSE 1)
             + MethodNamesLen(methods \ {m})

\* the get_info result: {"methods":[..],"ns":"..","limits":{..},
\* "encryption":{"nip44":true,"nip04":true}}; JSON.stringify leaves out a
\* limit that is undefined
InfoLen(info) ==
    LET member(nameLen, v) == IF v = Undefined THEN <<>> ELSE <<nameLen + 3 + NumberLen(v)>>
        members == member(3, info.limits.mps) \o member(3, info.limits.bps)
                   \o member(6, info.limits.maxKey) \o member(6, info.limits.maxVal)
                   \o member(8, info.limits.mgetMax)
        total[i \in 0..Len(members)] ==
            IF i = 0 THEN 0 ELSE members[i] + total[i - 1]
        limitsLen == 2 + total[Len(members)]
                     + (IF Len(members) > 1 THEN Len(members) - 1 ELSE 0)
    IN  11 + (2 + MethodNamesLen(info.methods)) + 6 + JsonStringLen(info.ns)
           + 10 + limitsLen + 14
           + (9 + (IF info.encryption.nip44 THEN 4 ELSE 5)
                + 9 + (IF info.encryption.nip04 THEN 4 ELSE 5) + 2)
           + 1

\* the length of the result object of a response
ResultLen(response) ==
    CASE response.kind = "none" -> 4
      [] response.kind = "value" ->
            9 + (IF response.val = Null THEN 4 ELSE JsonStringLen(response.val[1])) + 1
      [] response.kind = "ok" -> IF response.flag THEN 11 ELSE 12
      [] response.kind = "deleted" -> 11 + NumberLen(response.num) + 1
      [] response.kind = "exists" -> IF response.flag THEN 15 ELSE 16
      [] response.kind = "values" -> 10 + JsonArrayLen(response.vals) + 1
      [] response.kind = "ttl" -> 7 + NumberLen(response.num) + 1
      [] response.kind = "info" -> InfoLen(response.info[1])

\* the length of the error object of a response
ErrorLen(response) ==
    IF response.code = "OK" THEN 4
    ELSE 8 + (2 + TextLen[response.code]) + 11
           + (2 + TextLen[response.msg] + TextLen[response.mmethod]
                + CharsLen(response.mkey)) + 1

\* JSON.stringify(response).length for {"result":..,"error":..,"id":..}
ResponseSize(response) ==
    10 + ResultLen(response) + 9 + ErrorLen(response)
       + 6 + (2 + TextLen[response.id]) + 1

-----------------------------------------------------------------------------
(* ProtocolRouter: the method handlers (src/src/protocol/router.ts).       *)
(* A handler yields [response, store, call]: the response it builds, the   *)
(* keyspace after its backend operation, and the KVAdapter call it issued   *)
(* ([op |-> "none"] when it issued none).  backendOk tells whether the      *)
(* backend call, if one is issued, succeeds or throws.                      *)

errorResponse(id, code, message) ==
    [id |-> id, code |-> code, msg |-> message, mmethod |-> "", mkey |-> <<>>,
     kind |-> "none", num |-> 0, flag |-> FALSE, val |-> Null, vals |-> <<>>,
     info |-> Null]

\* a response whose error is null and whose result is the object named by kind
resultResponse(id, kind, num, flag, val, vals, info) ==
    [id |-> id, code |-> "OK", msg |-> "", mmethod |-> "", mkey |-> <<>>,
     kind |-> kind, num |-> num, flag |-> flag, val |-> val, vals |-> vals,
     info |-> info]

NoCall == [op |-> "none", keys |-> <<>>]

\* a handler that returns before any backend call
Returned(response, st) == [response |-> response, store |-> st, call |-> NoCall]

\* a handler that issued the call op on keys
Called(response, st, op, keys) ==
    [response |-> response, store |-> st, call |-> [op |-> op, keys |-> keys]]

handleGetInfo(request, connection) ==
    resultResponse(request.id, "info", 0, FALSE, Null, <<>>,
        Some([methods |-> connection.allowedMethods, ns |-> connection.namespace,
              limits |-> connection.limits,
              encryption |-> getCapabilities(dmCrypto)]))

handleGet(request, connection, namespace, st, t, backendOk) ==
    IF request.key = Null
    THEN Returned(errorResponse(request.id, "INTERNAL", "Failed to get value"), st)
    ELSE LET key == request.key[1]
             fullKey == ensureNamespace(namespace, key)
         IN  IF ~validateKey(key, connection.limits.maxKey)
             THEN Returned(errorResponse(request.id, "INVALID_KEY",
                                         "Key too long or invalid"), st)
             ELSE IF fullKey = Null
             THEN Returned(errorResponse(request.id, "RESTRICTED",
                                         "Key outside namespace"), st)
             ELSE IF ~backendOk \/ WrongType(st, t, fullKey[1])
             THEN Called(errorResponse(request.id, "INTERNAL", "Failed to get value"),
                         st, "get", fullKey)
             ELSE Called(resultResponse(request.id, "value", 0, FALSE,
                                        kvGet(st, t, fullKey[1]), <<>>, Null),
                         st, "get", fullKey)

\* params.ttl is optional and must be positive when given
handleSet(request, connection, namespace, st, t, backendOk) ==
    IF \/ request.key = Null
       \/ request.value = Null
       \/ (request.ttl # Null /\ request.ttl[1] <= 0)
    THEN Returned(errorResponse(request.id, "INTERNAL", "Failed to set value"), st)
    ELSE LET key == request.key[1]
             value == request.value[1]
             fullKey == ensureNamespace(namespace, key)
         IN  IF ~validateKey(key, connection.limits.maxKey)
             THEN Returned(errorResponse(request.id, "INVALID_KEY",
                                         "Key too long or invalid"), st)
             ELSE IF ~validateValue(value, connection.limits.maxVal)
             THEN Returned(errorResponse(request.id, "INVALID_VALUE",
                                         "Value too large"), st)
             ELSE IF fullKey = Null
             THEN Returned(errorResponse(request.id, "RESTRICTED",
                                         "Key outside namespace"), st)
             ELSE IF ~backendOk
             THEN Called(errorResponse(request.id, "INTERNAL", "Failed to set value"),
                         st, "set", fullKey)
             ELSE Called(resultResponse(request.id, "ok", 0, TRUE, Null, <<>>, Null),
                         kvSet(st, t, fullKey[1], value, request.ttl), "set", fullKey)

handleDel(request, connection, namespace, st, t, backendOk) ==
    IF request.key = Null
    THEN Returned(errorResponse(request.id, "INTERNAL", "Failed to delete key"), st)
    ELSE LET key == request.key[1]
             fullKey == ensureNamespace(namespace, key)
         IN  IF ~validateKey(key, connection.limits.maxKey)
             THEN Returned(errorResponse(request.id, "INVALID_KEY",
                                         "Key too long or invalid"), st)
             ELSE IF fullKey = Null
             THEN Returned(errorResponse(request.id, "RESTRICTED",
                                         "Key outside namespace"), st)
             ELSE IF ~backendOk
             THEN Called(errorResponse(request.id, "INTERNAL", "Failed to delete key"),
                         st, "del", fullKey)
             ELSE Called(resultResponse(request.id, "deleted",
                                        kvDelCount(st, t, fullKey[1]), FALSE,
                                        Null, <<>>, Null),
                         kvDel(st, fullKey[1]), "del", fullKey)

handleExists(request, connection, namespace, st, t, backendOk) ==
    IF request.key = Null
    THEN Returned(errorResponse(request.id, "INTERNAL", "Failed to check existence"), st)
    ELSE LET key == request.key[1]
             fullKey == ensureNamespace(namespace, key)
         IN  IF ~validateKey(key, connection.limits.maxKey)
             THEN Returned(errorResponse(request.id, "INVALID_KEY",
                                         "Key too long or invalid"), st)
             ELSE IF fullKey = Null
             THEN Returned(errorResponse(request.id, "RESTRICTED",
                                         "Key outside namespace"), st)
             ELSE IF ~backendOk
             THEN Called(errorResponse(request.id, "INTERNAL",
                                       "Failed to check existence"),
                         st, "exists", fullKey)
             ELSE Called(resultResponse(request.id, "exists", 0,
                                        kvExists(st, t, fullKey[1]), Null, <<>>, Null),
                         st, "exists", fullKey)

\* the loop over params.keys: <<"ok", full keys>>, or <<code, the key at fault>>
\* for the first key that validateKey or ensureNamespace rejects
RECURSIVE MgetKeys(_, _, _)
MgetKeys(keys, connection, namespace) ==
    IF keys = <<>> THEN <<"ok", <<>>>>
    ELSE LET key == Head(keys)
             fullKey == ensureNamespace(namespace, key)
             rest == MgetKeys(Tail(keys), connection, namespace)
         IN  IF ~validateKey(key, connection.limits.maxKey)
             THEN <<"INVALID_KEY", key>>
             ELSE IF fullKey = Null THEN <<"RESTRICTED", key>>
             ELSE IF rest[1] = "ok" THEN <<"ok", fullKey \o rest[2]>>
             ELSE rest

\* params.keys must be an array of at least one string
handleMget(request, connection, namespace, st, t, backendOk) ==
    IF request.keys = Null \/ request.keys = Some(<<>>)
    THEN Returned(errorResponse(request.id, "INTERNAL",
                                "Failed to get multiple values"), st)
    ELSE LET keys == request.keys[1]
             checked == MgetKeys(keys, connection, namespace)
         IN  IF ~validateMgetCount(Len(keys), connection.limits.mgetMax)
             THEN Returned(errorResponse(request.id, "PAYLOAD_TOO_LARGE",
                                         "Too many keys in mget"), st)
             ELSE IF checked[1] = "INVALID_KEY"
             THEN Returned([errorResponse(request.id, "INVALID_KEY", "Key too long: ")
                               EXCEPT !.mkey = checked[2]], st)
             ELSE IF checked[1] = "RESTRICTED"
             THEN Returned([errorResponse(request.id, "RESTRICTED",
                                          "Key outside namespace: ")
                               EXCEPT !.mkey = checked[2]], st)
             ELSE IF ~backendOk
             THEN Called(errorResponse(request.id, "INTERNAL",
                                       "Failed to get multiple values"),
                         st, "mget", checked[2])
             ELSE Called(resultResponse(request.id, "values", 0, FALSE, Null,
                                        kvMget(st, t, checked[2]), Null),
                         st, "mget", checked[2])

\* params.ttl is required and must be positive
handleExpire(request, connection, namespace, st, t, backendOk) ==
    IF request.key = Null \/ request.ttl = Null \/ request.ttl[1] <= 0
    THEN Returned(errorResponse(request.id, "INTERNAL", "Failed to set expiration"), st)
    ELSE LET key == request.key[1]
             fullKey == ensureNamespace(namespace, key)
         IN  IF ~validateKey(key, connection.limits.maxKey)
             THEN Returned(errorResponse(request.id, "INVALID_KEY",
                                         "Key too long or invalid"), st)
             ELSE IF fullKey = Null
             THEN Returned(errorResponse(request.id, "RESTRICTED",
                                         "Key outside namespace"), st)
             ELSE IF ~backendOk
             THEN Called(errorResponse(request.id, "INTERNAL",
                                       "Failed to set expiration"),
                         st, "expire", fullKey)
             ELSE Called(resultResponse(request.id, "ok", 0,
                                        kvExpireOk(st, t, fullKey[1]), Null, <<>>, Null),
                         kvExpire(st, t, fullKey[1], request.ttl[1]), "expire", fullKey)

handleTtl(request, connection, namespace, st, t, backendOk) ==
    IF request.key = Null
    THEN Returned(errorResponse(request.id, "INTERNAL", "Failed to get TTL"), st)
    ELSE LET key == request.key[1]
             fullKey == ensureNamespace(namespace, key)
         IN  IF ~validateKey(key, connection.limits.maxKey)
             THEN Returned(errorResponse(request.id, "INVALID_KEY",
                                         "Key too long or invalid"), st)
             ELSE IF fullKey = Null
             THEN Returned(errorResponse(request.id, "RESTRICTED",
                                         "Key outside namespace"), st)
             ELSE IF ~backendOk
             THEN Called(errorResponse(request.id, "INTERNAL", "Failed to get TTL"),
                         st, "ttl", fullKey)
             ELSE Called(resultResponse(request.id, "ttl", kvTtl(st, t, fullKey[1]),
                                        FALSE, Null, <<>>, Null),
                         st, "ttl", fullKey)

\* the switch on the method in handleRequest
Dispatch(request, connection, namespace, st, t, backendOk) ==
    CASE request.method = "get_info" -> Returned(handleGetInfo(request, connection), st)
      [] request.method = "get" -> handleGet(request, connection, namespace, st, t, backendOk)
      [] request.method = "set" -> handleSet(request, connection, namespace, st, t, backendOk)
      [] request.method = "del" -> handleDel(request, connection, namespace, st, t, backendOk)
      [] request.method = "exists" ->
            handleExists(request, connection, namespace, st, t, backendOk)
      [] request.method = "mget" -> handleMget(request, connection, namespace, st, t, backendOk)
      [] request.method = "expire" ->
            handleExpire(request, connection, namespace, st, t, backendOk)
      [] request.method = "ttl" -> handleTtl(request, connection, namespace, st, t, backendOk)
      [] OTHER ->
            Returned([errorResponse(request.id, "NOT_IMPLEMENTED",
                                    "Method  not implemented")
                         EXCEPT !.mmethod = request.method], st)

-----------------------------------------------------------------------------
(* ProtocolRouter.handleRequest (src/src/protocol/router.ts, lines 55-167) *)

\* getNamespaceManager: the manager of the connection's namespace is created
\* on first use and kept in the map
getNamespaceManager(managers, connection) ==
    IF connection.namespace \in DOMAIN managers
    THEN managers
    ELSE (connection.namespace :> NormalizeNamespace(connection.namespace)) @@ managers

\* what handleRequest does up to the point where it either returns or is
\* suspended on the reply of the backend call a handler issued:
\*   stage      "cached", "method", "rate", "budget" or "handler": where the
\*              response was built
\*   connection, cache, store   the state after it
\*   call       the KVAdapter call issued, NoCall if none
handleRequest(request, connection, managers, c, st, t, backendOk) ==
    LET namespace == getNamespaceManager(managers, connection)[connection.namespace]
        cached == cacheGet(c, connection.pubkey, request.id, t)
        c1 == cacheAfterGet(c, connection.pubkey, request.id, t)
        limited == checkLimit(connection, t)
        requestSize == RequestSize(request)
        budgeted == checkBudget(limited, t)
        handled == Dispatch(request, budgeted, namespace, st, t, backendOk)
    IN  IF cached # Null
        THEN [stage |-> "cached", response |-> cached[1], connection |-> connection,
              cache |-> c1, store |-> st, call |-> NoCall]
        ELSE IF request.method \notin connection.allowedMethods
        THEN [stage |-> "method",
              response |-> [errorResponse(request.id, "RESTRICTED", "Method  not allowed")
                               EXCEPT !.mmethod = request.method],
              connection |-> connection, cache |-> c1, store |-> st, call |-> NoCall]
        ELSE IF ~checkLimitOk(connection, t)
        THEN [stage |-> "rate",
              response |-> errorResponse(request.id, "RATE_LIMITED", "Rate limit exceeded"),
              connection |-> limited, cache |-> c1, store |-> st, call |-> NoCall]
        ELSE IF ~checkBudgetOk(limited, requestSize, t)
        THEN [stage |-> "budget",
              response |-> errorResponse(request.id, "RATE_LIMITED", "Byte budget exceeded"),
              connection |-> budgeted, cache |-> c1, store |-> st, call |-> NoCall]
        ELSE [stage |-> "handler", response |-> handled.response,
              connection |-> budgeted, cache |-> c1, store |-> handled.store,
              call |-> handled.call]

\* the rest of handleRequest once the handler has returned: the response is
\* cached and its size is consumed from the byte budget
cacheAfterHandler(c, clientPubkey, response, t) ==
    cacheSet(c, clientPubkey, response.id, response, t)

connectionAfterHandler(connection, response, t) ==
    consumeBudget(connection, ResponseSize(response), t)

-----------------------------------------------------------------------------
(* NostrKVServer (src/src/server.ts): the connection of an inbound event *)

AllMethods == {"get_info", "get", "set", "del", "exists", "mget", "expire", "ttl"}

\* the limits of the process configuration (src/unnamed/part_006 reads them
\* from the environment); small stand-ins for 60, 1048576, 256, 65536 and 16
ConfigMps == 2

ConfigBps == 100

ConfigMaxKey == 16

ConfigMaxVal == 6

ConfigMgetMax == 2

\* config.redis.namespace, which loadConfig ends with a colon
configNamespace == <<"a", "p", "p", "A", ":">>

NoRateLimitState == [requests |-> <<>>, bytes |-> <<>>]

createDefaultConnection(pubkey) ==
    [pubkey |-> pubkey, namespace |-> configNamespace, allowedMethods |-> AllMethods,
     limits |-> [mps |-> ConfigMps, bps |-> ConfigBps, maxKey |-> ConfigMaxKey,
                 maxVal |-> ConfigMaxVal, mgetMax |-> ConfigMgetMax],
     rateLimitState |-> NoRateLimitState]

-----------------------------------------------------------------------------
(* AuditLogger (src/src/audit/audit.ts), constructed by the server with its *)
(* own Redis client on the same keyspace and with config.redis.namespace    *)

maxEntries == 10000

\* the key of the audit list
auditKey == configNamespace \o <<"_", "_", "a", "u", "d", "i", "t">>

\* redactPubkey keeps the first and the last four characters of the pubkey,
\* which tell the pubkeys of the model apart
redactPubkey(pubkey) == <<"redacted", pubkey>>

\* ProtocolRouter.hashKey: the first eight characters of the key in base 64
hashKey(key) ==
    IF key = <<>> THEN <<>>
    ELSE LET text == Base64Encode(Utf8Bytes(key))
         IN  SubSeq(text, 1, IF Len(text) < 8 THEN Len(text) ELSE 8)

\* the entry handleRequest hands to AuditLogger.log
AuditEntry(request, response, clientPubkey, latency) ==
    [method |-> request.method,
     keyHash |-> hashKey(IF request.key = Null THEN <<>> ELSE request.key[1]),
     valueSize |-> IF request.value = Null THEN 0 ELSE Len(request.value[1]),
     status |-> IF response.code = "OK" THEN "success" ELSE "error",
     errorCode |-> IF response.code = "OK" THEN Null ELSE Some(response.code),
     latency |-> latency,
     clientPubkey |-> clientPubkey]

\* the key holds something that is no list: LPUSH and LTRIM answer WRONGTYPE
NoList(st, t, key) == Live(st, t, key) /\ "list" \notin DOMAIN st[key]

\* Redis LPUSH key item, on a key that holds a list or nothing
lpush(st, t, key, item) ==
    IF ~Live(st, t, key)
    THEN Put(st, key, [val |-> <<item>>, exp |-> NoExpiry, list |-> TRUE])
    ELSE [st EXCEPT ![key].val = <<item>> \o @]

\* Redis LTRIM key start stop, with 0 <= start <= stop (items are counted
\* from 0), on a key that holds a list or nothing
ltrim(st, t, key, start, stop) ==
    IF ~Live(st, t, key) THEN st
    ELSE [st EXCEPT ![key].val =
              SubSeq(@, start + 1, IF Len(@) < stop + 1 THEN Len(@) ELSE stop + 1)]

\* the record AuditLogger.log serializes: the entry with its timestamp and
\* the redacted pubkey
auditRecord(entry, t) ==
    [method |-> entry.method, keyHash |-> entry.keyHash,
     valueSize |-> entry.valueSize, status |-> entry.status,
     errorCode |-> entry.errorCode, latency |-> entry.latency,
     clientPubkey |-> redactPubkey(entry.clientPubkey), timestamp |-> t]

\* AuditLogger.log with both commands answered at once: LPUSH then LTRIM; an
\* error of LPUSH (the key holds a string) is logged and swallowed
auditLog(st, t, entry) ==
    IF NoList(st, t, auditKey) THEN st
    ELSE ltrim(lpush(st, t, auditKey, auditRecord(entry, t)), t, auditKey,
               0, maxEntries - 1)

\* the audit list as the keyspace holds it at time t
AuditList(st, t) ==
    IF Live(st, t, auditKey) /\ "list" \in DOMAIN st[auditKey]
    THEN st[auditKey].val ELSE <<>>

-----------------------------------------------------------------------------
(* NostrKVServer (src/src/server.ts), continued *)

\* Some(connection) for a pubkey the registry document holds, else Null
loadConnectionFromRegistry(reg, pubkey) ==
    IF reg[pubkey] = Null THEN Null
    ELSE Some([pubkey |-> pubkey, namespace |-> reg[pubkey][1].namespace,
               allowedMethods |-> reg[pubkey][1].allowedMethods,
               limits |-> reg[pubkey][1].limits,
               rateLimitState |-> NoRateLimitState])

\* a resolution that never consults the registry
resolveConnectionDefaultOnly(conns, reg, pubkey) ==
    IF conns[pubkey] # Null THEN conns[pubkey][1]
    ELSE createDefaultConnection(pubkey)

\* a faulty resolution: the map is not consulted and every event gets a
\* connection object of its own
resolveConnectionAnew(conns, reg, pubkey) ==
    IF loadConnectionFromRegistry(reg, pubkey) # Null
    THEN loadConnectionFromRegistry(reg, pubkey)[1]
    ELSE createDefaultConnection(pubkey)

\* handleIncomingEvent, lines 168-195: the connection the request runs under
resolveConnection(conns, reg, pubkey) ==
    IF conns[pubkey] # Null THEN conns[pubkey][1]
    ELSE IF loadConnectionFromRegistry(reg, pubkey) # Null
    THEN loadConnectionFromRegistry(reg, pubkey)[1]
    ELSE createDefaultConnection(pubkey)

-----------------------------------------------------------------------------
(* sendResponse (src/src/server.ts, lines 258-307) *)

RESPONSE_KIND == 23195

\* request_timeout of the specification, in milliseconds (default 15 s);
\* the code has no timer for it
requestTimeoutMs == 15000

\* every library call succeeds and a relay accepts the event
Fair == [nip44Encrypts |-> TRUE, nip04Encrypts |-> TRUE, relaysAccept |-> TRUE]

\* a faulty response event: tagged with the sender instead of the
\* recipient
ResponseEventToSelf(response, recipientPubkey, method, t) ==
    [kind |-> RESPONSE_KIND, created_at |-> t \div 1000,
     tags |-> << <<"p", "server">> >>, pubkey |-> "server",
     sig |-> "valid", method |-> method, plaintext |-> response]

\* the event that finalizeEvent signs with the server key
ResponseEvent(response, recipientPubkey, method, t) ==
    [kind |-> RESPONSE_KIND, created_at |-> t \div 1000,
     tags |-> << <<"p", recipientPubkey>> >>, pubkey |-> "server",
     sig |-> "valid", method |-> method, plaintext |-> response]

\* the response is encrypted, signed and published; a failure of the
\* encryption or of the relays is logged and nothing more happens
sendResponse(response, recipientPubkey) ==
    \E enc \in {encrypt(dmCrypto, env)} :
        /\ dmCrypto' = [dmCrypto EXCEPT !.nip44Available = enc.nip44Available]
        /\ IF enc.method # "failed" /\ env.relaysAccept
           THEN /\ published' = published + 1
                /\ lastSent' = Some(ResponseEvent(response, recipientPubkey,
                                                  enc.method, now))
           ELSE UNCHANGED <<published, lastSent>>

-----------------------------------------------------------------------------
(* The process (src/src/server.ts, lines 44-62 and 344-362): the flag       *)
(* isShuttingDown, the state of the relay pool, of the router and of the   *)
(* two backend clients, the exit code once the process has exited, the     *)
(* calls shutdown has made so far, and the signals delivered.              *)

Running ==
    [isShuttingDown |-> FALSE, relayPool |-> "open", router |-> "alive",
     kvAdapter |-> "open", redis |-> "open", exit |-> Null, calls |-> <<>>,
     signals |-> <<>>]

-----------------------------------------------------------------------------
(* The state machine *)

\* bounds of the model
MaxEvents == 3

MaxInflight == 2

MaxTicks == 3

Pubkeys == {"pkA", "pkB"}

\* the clock advances in steps of half the window
TickMs == rateWindowMs \div 2

\* ttl values the clients send, in seconds
TtlSeconds == 60

\* pubkey -> timestamps, with one more appended for pubkey
Logged(log, pubkey, entry) == [log EXCEPT ![pubkey] = Append(@, entry)]

\* how many of the timestamps lie in the 60 seconds that end at t
CountInWindow(timestamps, t) ==
    Cardinality({i \in 1..Len(timestamps) : t - timestamps[i] < rateWindowMs})

\* the response first given to (pubkey, id), while it is at most 60 seconds old
FirstReply(pubkey, id, t) ==
    IF <<pubkey, id>> \in DOMAIN firstReply
    THEN IF t - firstReply[<<pubkey, id>>].timestamp <= cacheWindowMs
         THEN Some(firstReply[<<pubkey, id>>])
         ELSE Null
    ELSE Null

\* An inbound event of client pubkey carrying request has been decrypted and
\* parsed: the connection is found or created and handleRequest runs until
\* it returns or is suspended on the backend reply.  (lastEvent is left to
\* the action that delivers the event.)
Receive(pubkey, request, backendOk) ==
    \E connection \in {resolveConnection(connections, registry, pubkey)} :
    \E out \in {handleRequest(request, connection, namespaceManagers, cache, store,
                              now, backendOk)} :
    \E suspended \in {out.call.op # "none"} :
    \E finished \in {out.stage = "handler" /\ ~suspended} :
    \E first \in {FirstReply(pubkey, request.id, now)} :
        /\ BagCardinality(tasks) < MaxInflight
        /\ events' = events + 1
        /\ namespaceManagers' = getNamespaceManager(namespaceManagers, connection)
        /\ store' = IF finished
                    THEN auditLog(out.store, now,
                                  AuditEntry(request, out.response, pubkey, 0))
                    ELSE out.store
        /\ IF suspended THEN UNCHANGED <<dmCrypto, published, lastSent>>
           ELSE sendResponse(out.response, pubkey)
        /\ cache' = IF finished
                    THEN cacheAfterHandler(out.cache, pubkey, out.response, now)
                    ELSE out.cache
        /\ connections' =
              [connections EXCEPT ![pubkey] =
                  Some(IF finished
                       THEN connectionAfterHandler(out.connection, out.response, now)
                       ELSE out.connection)]
        /\ tasks' = IF suspended
                    THEN tasks (+) SetToBag({[pubkey |-> pubkey, request |-> request,
                                              response |-> out.response,
                                              op |-> out.call.op,
                                              startTime |-> now]})
                    ELSE tasks
        /\ lastCall' = Some([pubkey |-> pubkey, request |-> request,
                             namespace |-> connection.namespace,
                             stage |-> out.stage, response |-> out.response,
                             op |-> out.call.op, keys |-> out.call.keys,
                             inWindow |-> CountInWindow(accepted[pubkey], now),
                             mps |-> connection.limits.mps,
                             first |-> first])
        /\ firstReply' =
              IF first # Null THEN firstReply
              ELSE (<<pubkey, request.id>> :>
                        [request |-> request, response |-> out.response,
                         timestamp |-> now, stage |-> out.stage])
                   @@ [k \in (DOMAIN firstReply) \ {<<pubkey, request.id>>} |->
                           firstReply[k]]
        /\ lastResp' = IF suspended THEN lastResp
                       ELSE Some([pubkey |-> pubkey, request |-> request,
                                  response |-> out.response, stage |-> out.stage])
        /\ accepted' = IF out.stage \in {"budget", "handler"}
                       THEN Logged(accepted, pubkey, now) ELSE accepted
        /\ traffic' = IF out.stage = "handler"
                      THEN Logged(traffic, pubkey,
                                  [timestamp |-> now,
                                   request |-> RequestSize(request),
                                   response |-> ResponseSize(out.response)])
                      ELSE traffic
        /\ UNCHANGED <<now, registry, env, probe,
                   lifecycle>>

\* The backend replied to a suspended handleRequest: the response is cached,
\* its size consumed from the byte budget, the audit entry logged, and the
\* response handleRequest returns is published.
Complete(task) ==
    /\ BagIn(task, tasks)
    /\ tasks' = tasks (-) SetToBag({task})
    /\ store' = auditLog(store, now,
                         AuditEntry(task.request, task.response, task.pubkey,
                                    now - task.startTime))
    /\ sendResponse(task.response, task.pubkey)
    /\ cache' = cacheAfterHandler(cache, task.pubkey, task.response, now)
    /\ connections' =
          [connections EXCEPT ![task.pubkey] =
              Some(connectionAfterHandler(connections[task.pubkey][1],
                                          task.response, now))]
    /\ lastResp' = Some([pubkey |-> task.pubkey, request |-> task.request,
                         response |-> task.response, stage |-> "handler"])
    /\ UNCHANGED <<now, registry, namespaceManagers, events, lastCall,
                   accepted, traffic, firstReply, lastEvent, env, probe,
                   lifecycle>>

\* Time passes.
Tick ==
    /\ now + TickMs <= MaxTicks * TickMs
    /\ now' = now + TickMs
    /\ UNCHANGED <<registry, connections, namespaceManagers, store, cache, tasks,
                   events, lastCall, lastResp, accepted, traffic, firstReply,
                   published, lastEvent, dmCrypto, env, lastSent, probe,
                   lifecycle>>

\* The interval timer of the idempotency cache fires.
Cleanup ==
    /\ cacheCleanup(cache, now) # cache
    /\ cache' = cacheCleanup(cache, now)
    /\ UNCHANGED <<now, registry, connections, namespaceManagers, store, tasks,
                   events, lastCall, lastResp, accepted, traffic, firstReply,
                   published, lastEvent, dmCrypto, env, lastSent, probe,
                   lifecycle>>

\* the registry documents considered: none, or one entry for pkB as the
\* administrative surface writes it (src/unnamed/part_005, lines 813-819:
\* its limits are named mps, bps, maxkey, maxval, mget_max, so the fields
\* maxKey, maxVal and mgetMax the server reads are undefined); the document
\* states the limits of the configuration
RegistryMps == 1

RegistryBps == 150

RegistryEntry(namespace, methods) ==
    Some([namespace |-> namespace, allowedMethods |-> methods,
          limits |-> [mps |-> RegistryMps, bps |-> RegistryBps, maxKey |-> Undefined,
                      maxVal |-> Undefined, mgetMax |-> Undefined,
                      maxkey |-> ConfigMaxKey, maxval |-> ConfigMaxVal,
                      mget_max |-> ConfigMgetMax]])

Registry(entry) == [p \in Pubkeys |-> IF p = "pkB" THEN entry ELSE Null]

InitServer(registries) ==
    /\ now = 0
    /\ registry \in registries
    /\ connections = [p \in Pubkeys |-> Null]
    /\ namespaceManagers = << >>
    /\ store = << >>
    /\ cache = << >>
    /\ tasks = EmptyBag
    /\ events = 0
    /\ lastCall = Null
    /\ lastResp = Null
    /\ accepted = [p \in Pubkeys |-> <<>>]
    /\ traffic = [p \in Pubkeys |-> <<>>]
    /\ firstReply = << >>
    /\ published = 0
    /\ lastEvent = Null
    /\ dmCrypto = NewDMCrypto
    /\ env = Fair
    /\ lastSent = Null
    /\ probe = Null
    /\ lifecycle = Running

\* a request record
Req(method, id, key, value, ttl, keys) ==
    [method |-> method, id |-> id, key |-> key, value |-> value, ttl |-> ttl,
     keys |-> keys]

-----------------------------------------------------------------------------
(* Spec: the pipeline over time.  The client pkB, under the default policy *)
(* or under a registry entry that allows no del, sends set and del of one  *)
(* key under two request ids; a request arrives when no other is being     *)
(* handled, and the clock and the cache timer run in between.              *)

MainIds == {"r1", "r2"}

MainRequests ==
    {Req(m, id, Some(<<"k">>), IF m = "set" THEN Some(<<"Y", "Q", "=", "=">>) ELSE Null,
         Null, Null) : m \in {"set", "del"}, id \in MainIds}

MainRegistries ==
    {Registry(Null),
     Registry(RegistryEntry(<<"a", "p", "p", "B", ":">>, AllMethods \ {"del"}))}

Init == InitServer(MainRegistries)

ReceiveWhenIdle(pubkey, request, backendOk) ==
    /\ events < MaxEvents
    /\ tasks = EmptyBag
    /\ Receive(pubkey, request, backendOk)
    /\ UNCHANGED lastEvent

Next ==
    \/ \E request \in MainRequests : ReceiveWhenIdle("pkB", request, TRUE)
    \/ \E task \in BagToSet(tasks) : Complete(task)
    \/ Tick
    \/ Cleanup

Spec == Init /\ [][Next]_vars

-----------------------------------------------------------------------------
(* SpecKeys: the keys of two clients.  pkA runs under the default policy   *)
(* (namespace "appA:"), pkB under a registry entry whose namespace is      *)
(* "appB:", "appB" or "appA:sub:".  Every event carries a fresh request id *)
(* and is handled to its end before the next one arrives.                  *)

MaxKeyEvents == 2

\* the request id of the n-th event
EventIds == <<"r1", "r2", "r3", "r4">>

KeyX == <<"x">>

KeySub == <<"a", "p", "p", "A", ":", "s", "u", "b", ":", "x">>

KeyUser == <<"u", "s", "e", "r", ":", "1", "2", "3">>

\* the name of the audit list without the configured namespace
KeyAudit == <<"_", "_", "a", "u", "d", "i", "t">>

CoreKeys == {KeyX, KeySub}

\* a sub-key with a colon, and keys that are empty or hold a forbidden pattern
OddKeys == {KeyUser, <<>>, <<"NUL">>, <<"a", "*">>, <<"SP">>}

ValueA == <<"Y", "Q", "=", "=">>

\* a key as long as the configured key limit, and one a character longer
KeyMax == [i \in 1..ConfigMaxKey |-> "a"]

KeyLong == [i \in 1..(ConfigMaxKey + 1) |-> "a"]

\* a value one byte larger than the configured value limit, and one as
\* large as the limit
ValueBig == Base64Encode([i \in 1..(ConfigMaxVal + 1) |-> 97])

ValueMax == Base64Encode([i \in 1..ConfigMaxVal |-> 97])

\* what pkB sends: every method
KeyRequests(id) ==
    {Req(m, id, Some(k), IF m = "set" THEN Some(ValueA) ELSE Null,
         IF m = "expire" THEN Some(TtlSeconds) ELSE Null, Null) :
        m \in {"get", "set", "del", "exists", "expire", "ttl"}, k \in CoreKeys}
    \cup {Req(m, id, Some(k), IF m = "set" THEN Some(ValueA) ELSE Null, Null, Null) :
             m \in {"get", "set"}, k \in OddKeys}
    \cup {Req("mget", id, Null, Null, Null, Some(ks)) :
             ks \in {<<KeyX>>, <<KeyX, KeySub>>, <<KeyX, KeyUser>>}}
    \cup {Req("get_info", id, Null, Null, Null, Null)}
    \cup {Req("get", id, Some(KeyLong), Null, Null, Null),
          Req("set", id, Some(KeyX), Some(ValueBig), Null, Null),
          Req("mget", id, Null, Null, Null, Some(<<KeyX, KeyX, KeyX>>))}

\* a forbidden key one character longer than the configured key limit
KeyLongStar == [i \in 1..(ConfigMaxKey + 1) |-> "*"]

\* what pkA sends: writes and deletions
WriteRequests(id) ==
    {Req(m, id, Some(k), IF m = "set" THEN Some(ValueA) ELSE Null,
         IF m = "expire" THEN Some(TtlSeconds) ELSE Null, Null) :
        m \in {"set", "del", "expire"}, k \in CoreKeys}
    \cup {Req("set", id, Some(KeyUser), Some(ValueA), Null, Null),
          Req("set", id, Some(<<"a", "*">>), Some(ValueBig), Null, Null),
          Req("del", id, Some(KeyLongStar), Null, Null, Null),
          Req("mget", id, Null, Null, Null, Some(<<KeyX, <<"a", "*">> >>))}
    \cup {Req(m, id, Some(KeyAudit), IF m = "set" THEN Some(ValueA) ELSE Null,
               IF m = "expire" THEN Some(TtlSeconds) ELSE Null, Null) :
              m \in {"set", "del", "expire"}}
    \cup {Req("del", id, Some(KeyMax), Null, Null, Null),
          Req("del", id, Some(KeyLong), Null, Null, Null),
          Req("set", id, Some(KeyX), Some(ValueMax), Null, Null),
          Req("set", id, Some(KeyX), Some(ValueBig), Null, Null),
          Req("mget", id, Null, Null, Null, Some(<<>>)),
          Req("mget", id, Null, Null, Null, Some(<<KeyX, KeyX, KeyX>>)),
          Req("mget", id, Null, Null, Null, Some(<<KeyX, KeyAudit>>))}

KeyRegistries ==
    {Registry(RegistryEntry(ns, AllMethods)) :
        ns \in {<<"a", "p", "p", "B", ":">>, <<"a", "p", "p", "B">>,
                <<"a", "p", "p", "A", ":", "s", "u", "b", ":">>}}

InitKeys == InitServer(KeyRegistries)

ReceiveKey(pubkey, request) ==
    /\ events < MaxKeyEvents
    /\ tasks = EmptyBag
    /\ Receive(pubkey, request, TRUE)
    /\ UNCHANGED lastEvent

NextKeys ==
    \/ \E request \in WriteRequests(EventIds[events + 1]) : ReceiveKey("pkA", request)
    \/ \E request \in KeyRequests(EventIds[events + 1]) : ReceiveKey("pkB", request)
    \/ \E task \in BagToSet(tasks) : Complete(task)

SpecKeys == InitKeys /\ [][NextKeys]_vars

-----------------------------------------------------------------------------
(* SpecConcurrent: events handled at the same time.  The client pkA sends   *)
(* set, get and del of one key under two request ids; a new event may       *)
(* arrive while earlier ones wait for the backend, and the backend may fail. *)

InitConcurrent == InitServer({Registry(Null)})

ReceiveConcurrent(pubkey, request, backendOk) ==
    /\ events < MaxEvents
    /\ Receive(pubkey, request, backendOk)
    /\ UNCHANGED lastEvent

ConcurrentRequests ==
    {Req(m, id, Some(<<"k">>), IF m = "set" THEN Some(ValueA) ELSE Null, Null, Null) :
        m \in {"set", "get", "del"}, id \in MainIds}

NextConcurrent ==
    \/ \E request \in ConcurrentRequests, backendOk \in BOOLEAN :
          ReceiveConcurrent("pkA", request, backendOk)
    \/ \E task \in BagToSet(tasks) : Complete(task)

SpecConcurrent == InitConcurrent /\ [][NextConcurrent]_vars

-----------------------------------------------------------------------------
(* Properties of the keys handed to the backend *)

\* C1 (namespace confinement): every key that a request of a connection
\* hands to a KVAdapter operation begins with the namespace string of that
\* connection, whatever the method, the key and the requests before it.
C1_NamespaceConfinement ==
    lastCall # Null =>
        \A i \in 1..Len(lastCall[1].keys) :
            StartsWith(lastCall[1].keys[i], lastCall[1].namespace)

\* a set of the bare key "x" by the client whose registry namespace "appB"
\* lacks the colon has been handed to the backend as "appB:x"
C1_Witness ==
    /\ lastCall # Null
    /\ lastCall[1].namespace = <<"a", "p", "p", "B">>
    /\ lastCall[1].op = "set"
    /\ lastCall[1].keys = << <<"a", "p", "p", "B", ":", "x">> >>
    /\ <<"a", "p", "p", "B", ":", "x">> \in DOMAIN store

\* the namespace under which the keys of pkB are kept
NamespaceOfB == NormalizeNamespace(registry["pkB"][1].namespace)

\* C2 (cross-client isolation): pkA and pkB have different namespaces, so
\* no request of pkA hands the backend a key under the namespace of pkB,
\* and the first read of pkB, which has written nothing, finds nothing.
C2_Isolation ==
    lastCall # Null =>
        /\ lastCall[1].pubkey = "pkA" =>
               \A i \in 1..Len(lastCall[1].keys) :
                   ~StartsWith(lastCall[1].keys[i], NamespaceOfB)
        /\ (lastCall[1].pubkey = "pkB" /\ lastCall[1].op = "get"
               /\ Len(traffic["pkB"]) = 1) =>
               lastCall[1].response.val = Null

-----------------------------------------------------------------------------
(* Properties of the idempotency cache and of the quotas *)

C4_AtMostOnce ==
    \A t1, t2 \in BagToSet(tasks) :
        (t1.pubkey = t2.pubkey /\ t1.request.id = t2.request.id)
            => (t1 = t2 /\ CopiesIn(t1, tasks) = 1)

\* the limits of the connection of pubkey
LimitsOf(pubkey) == connections[pubkey][1].limits

\* C5 (request-rate quota): in the 60 seconds that end with any accepted
\* request, at most mps requests of the connection were accepted; a request
\* that reaches the rate check is accepted if fewer than mps were accepted
\* in the 60 seconds before it, and is answered RATE_LIMITED otherwise.
C5_RateQuota ==
    /\ \A pubkey \in Pubkeys : \A i \in 1..Len(accepted[pubkey]) :
           CountInWindow(SubSeq(accepted[pubkey], 1, i), accepted[pubkey][i])
               <= LimitsOf(pubkey).mps
    /\ (lastCall # Null /\ lastCall[1].stage \notin {"cached", "method"}) =>
           /\ (lastCall[1].stage = "rate") <=> (lastCall[1].inWindow >= lastCall[1].mps)
           /\ (lastCall[1].stage = "rate") =>
                  (/\ lastCall[1].response.code = "RATE_LIMITED"
                   /\ lastCall[1].response.msg = "Rate limit exceeded")

\* under the default policy the request after the first mps ones has been
\* answered RATE_LIMITED, the clock not having moved
C5_Witness ==
    /\ lastCall # Null
    /\ lastCall[1].stage = "rate"
    /\ lastCall[1].mps = ConfigMps
    /\ lastCall[1].inWindow = ConfigMps
    /\ Len(accepted[lastCall[1].pubkey]) = ConfigMps
    /\ now = 0

\* the request and response bytes of the requests of pubkey handled in the
\* 60 seconds that end with the i-th of them
RECURSIVE TrafficInWindow(_, _, _)
TrafficInWindow(pubkey, i, j) ==
    IF j = 0 THEN 0
    ELSE (IF traffic[pubkey][i].timestamp - traffic[pubkey][j].timestamp < budgetWindowMs
          THEN traffic[pubkey][j].request + traffic[pubkey][j].response
          ELSE 0)
         + TrafficInWindow(pubkey, i, j - 1)

\* C6 (byte quota): in every 60 seconds the request bytes plus the response
\* bytes of the requests handled for a connection are at most its bps.
C6_ByteQuota ==
    \A pubkey \in Pubkeys : \A i \in 1..Len(traffic[pubkey]) :
        TrafficInWindow(pubkey, i, i) <= LimitsOf(pubkey).bps

-----------------------------------------------------------------------------
(* SpecProbe: the namespace guard, the value round trip and the publish    *)
(* fan-out as functions.  The initial state holds an input; the one step   *)
(* applies the function.                                                   *)

MaxKeyLen == 3

MaxValueLen == 4

KeyChars == {"a", ":", ".", "*", "$", "{", "(", "SP", "NUL"}

RECURSIVE SeqsUpTo(_, _)
SeqsUpTo(chars, n) ==
    IF n = 0 THEN {<<>>}
    ELSE SeqsUpTo(chars, n - 1)
         \cup {Append(q, c) : q \in {q \in SeqsUpTo(chars, n - 1) : Len(q) = n - 1},
                               c \in chars}

ProbeKeys ==
    SeqsUpTo(KeyChars, MaxKeyLen)
    \cup {KeyUser, KeySub, <<"e", "v", "a", "l", "(", "a">>,
          <<"e", "x", "e", "c", "(">>, <<"a", "\\">>, <<"a", "?">>, <<"[", "a">>,
          <<"a", "]">>, <<"a", "LF">>, <<"CR">>, <<"a", "BEL">>, <<"TAB", "SP">>}

ProbeNamespaces == {<<"a", ":">>, <<"a", ":", "a", ":">>, configNamespace}

\* the byte strings whose text is made of a, b, c, d and !
ProbeValues == SeqsUpTo({Ascii[c] : c \in ValueChars}, MaxValueLen)

\* RelayPool (src/src/relays/relayPool.ts, lines 1-108).  The pool is
\* constructed with a list of relays; what each relay does with an event is
\* the relay's: it accepts it, rejects it, or cannot be reached.
MaxRelays == 4

RelayOutcomes == {"accepted", "rejected", "unreachable"}

\* Promise.allSettled(this.pool.publish(this.relays, event)): one result for
\* each configured relay, whatever the others did
allSettled(outcomes) ==
    [i \in 1..Len(outcomes) |->
        IF outcomes[i] = "accepted" THEN "fulfilled" ELSE "rejected"]

\* a faulty RelayPool.publish: it throws as soon as one relay has failed
publishStrict(outcomes) ==
    LET results == allSettled(outcomes)
        failed == Cardinality({i \in 1..Len(results) : results[i] = "rejected"})
    IN  [threw |-> failed > 0,
         delivered |-> {i \in 1..Len(outcomes) : outcomes[i] = "accepted"}]

\* RelayPool.publish: whether it throws, and the relays that hold the event
publish(outcomes) ==
    LET results == allSettled(outcomes)
        successful == Cardinality({i \in 1..Len(results) : results[i] = "fulfilled"})
    IN  [threw |-> successful = 0,
         delivered |-> {i \in 1..Len(outcomes) : outcomes[i] = "accepted"}]

InitProbe ==
    /\ now = 0
    /\ registry = Registry(Null)
    /\ connections = [p \in Pubkeys |-> Null]
    /\ namespaceManagers = << >>
    /\ store = << >>
    /\ cache = << >>
    /\ tasks = EmptyBag
    /\ events = 0
    /\ lastCall = Null
    /\ lastResp = Null
    /\ accepted = [p \in Pubkeys |-> <<>>]
    /\ traffic = [p \in Pubkeys |-> <<>>]
    /\ firstReply = << >>
    /\ published = 0
    /\ lastEvent = Null
    /\ dmCrypto = NewDMCrypto
    /\ env = Fair
    /\ lastSent = Null
    /\ lifecycle = Running
    /\ \/ \E namespace \in ProbeNamespaces, key \in ProbeKeys :
             probe = [fn |-> "ensureNamespace", done |-> FALSE,
                      namespace |-> namespace, key |-> key]
       \/ \E v \in ProbeValues :
             probe = [fn |-> "roundTrip", done |-> FALSE, v |-> v]
       \/ \E n \in 0..MaxRelays : \E outcomes \in [1..n -> RelayOutcomes] :
             probe = [fn |-> "publish", done |-> FALSE, outcomes |-> outcomes]

\* the manager of namespace is asked for the full key of a key
ApplyEnsureNamespace ==
    /\ probe.fn = "ensureNamespace"
    /\ ~probe.done
    /\ probe' = [fn |-> "ensureNamespace", done |-> TRUE,
                 namespace |-> probe.namespace, key |-> probe.key,
                 result |-> ensureNamespace(NormalizeNamespace(probe.namespace),
                                            probe.key)]
    /\ UNCHANGED serverVars

\* a client under the default policy sets the key "x" to base64(v) on an
\* empty keyspace and then gets it
ApplyRoundTrip ==
    /\ probe.fn = "roundTrip"
    /\ ~probe.done
    /\ \E connection \in {createDefaultConnection("pkA")} :
       \E set \in {handleSet(Req("set", "r1", Some(KeyX), Some(Base64Encode(probe.v)),
                                 Null, Null),
                             connection, configNamespace, store, now, TRUE)} :
       \E get \in {handleGet(Req("get", "r2", Some(KeyX), Null, Null, Null),
                             connection, configNamespace, set.store, now, TRUE)} :
          probe' = [fn |-> "roundTrip", done |-> TRUE, v |-> probe.v,
                    set |-> set, get |-> get]
    /\ UNCHANGED serverVars

\* an event is published to the configured relays
ApplyPublish ==
    /\ probe.fn = "publish"
    /\ ~probe.done
    /\ probe' = [fn |-> "publish", done |-> TRUE, outcomes |-> probe.outcomes,
                 result |-> publish(probe.outcomes)]
    /\ UNCHANGED serverVars

NextProbe ==
    \/ ApplyEnsureNamespace
    \/ ApplyRoundTrip
    \/ ApplyPublish

SpecProbe == InitProbe /\ [][NextProbe]_vars

-----------------------------------------------------------------------------
(* Properties of the key checks of the handlers *)

\* the patterns that the specification forbids in a key
ForbiddenPatterns ==
    { <<".", ".">>, <<"NUL">>, <<"CR">>, <<"LF">>, <<"*">>, <<"?">>, <<"[">>,
      <<"]">>, <<"\\">>, <<"$", "{">>, <<"$", "(", "(">>,
      <<"e", "v", "a", "l", "(">>, <<"e", "x", "e", "c", "(">>,
      <<".", ".", ".">> }

\* a key that is empty, contains a forbidden pattern or a control character,
\* or is made of whitespace only
ForbiddenKey(key) ==
    \/ key = <<>>
    \/ \E pattern \in ForbiddenPatterns : Includes(key, pattern)
    \/ \E i \in 1..Len(key) : key[i] \in ControlChars
    \/ \A i \in 1..Len(key) : key[i] \in WhitespaceChars

\* the keys that a request names
RequestKeys(request) ==
    IF request.method = "mget" THEN request.keys[1]
    ELSE IF request.key # Null THEN <<request.key[1]>>
    ELSE <<>>

\* the last request was evaluated by a method handler and names a forbidden key
ForbiddenKeyHandled ==
    /\ lastCall # Null
    /\ lastCall[1].stage = "handler"
    /\ \E i \in 1..Len(RequestKeys(lastCall[1].request)) :
           ForbiddenKey(RequestKeys(lastCall[1].request)[i])

C8_SubKeyAccepted ==
    (/\ lastCall # Null
     /\ lastCall[1].stage = "handler"
     /\ NormalizeNamespace(lastCall[1].namespace) = configNamespace
     /\ lastCall[1].request.method = "set"
     /\ lastCall[1].request.key = Some(KeyUser)) =>
        /\ lastCall[1].response.code = "OK"
        /\ lastCall[1].response.kind = "ok"
        /\ lastCall[1].response.flag
        /\ lastCall[1].op = "set"
        /\ lastCall[1].keys = << configNamespace \o KeyUser >>

-----------------------------------------------------------------------------
(* Properties of the functions applied by SpecProbe *)

C10_RoundTrip ==
    (/\ probe.fn = "roundTrip"
     /\ probe.done
     /\ probe.set.response.code = "OK") =>
        /\ probe.get.response.code = "OK"
        /\ probe.get.response.val = Some(Base64Encode(probe.v))

-----------------------------------------------------------------------------
(* NostrKVServer.handleIncomingEvent (src/src/server.ts, lines 101-214):   *)
(* the envelope of an inbound event.  An event is a record                 *)
(*   [pubkey, sig, created_at, content]                                    *)
(* with sig "valid", "invalid" or "missing", created_at in seconds, and    *)
(* content a ciphertext (field scheme) whose kind says what it holds:      *)
(*   "undecryptable"  nothing that any scheme decrypts                     *)
(*   "text"           a plaintext that is not JSON                         *)
(*   "null"           the JSON value null                                  *)
(*   "scalar"         a JSON number, string or array                       *)
(*   "malformed"      an object that is no request (method not a string    *)
(*                    or params not a map), with id Some(id) or, when the  *)
(*                    id is absent, Null                                   *)
(*   "request"        a request, in the field request                      *)

\* a faulty parse: a plaintext that is not JSON is taken for a value
\* without fields
parsesAsObjectLax(plaintext) == plaintext.kind # "null"

\* JSON.parse of the plaintext and the logging of request.method that
\* follows it in the same try block: FALSE when either throws
parsesAsObject(plaintext) == plaintext.kind \notin {"text", "null"}

\* baseRequestSchema.parse(request) succeeds
isRequest(json) == json.kind = "request"

\* request.id as the catch block of handleRequest reads it
idOf(json) ==
    IF json.kind = "request" THEN Some(json.request.id)
    ELSE IF json.kind = "malformed" THEN json.id
    ELSE Null

\* the response without an id, which JSON.stringify leaves out when
\* request.id is undefined
NoId == ""

\* the event is returned from before a connection is looked up
Dropped(event, outcome) ==
    /\ events' = events + 1
    /\ lastEvent' = Some([event |-> event, outcome |-> outcome])
    /\ UNCHANGED <<now, registry, connections, namespaceManagers, store, cache,
                   tasks, lastCall, lastResp, accepted, traffic, firstReply,
                   published, dmCrypto, env, lastSent, probe,
                   lifecycle>>

\* baseRequestSchema.parse throws in handleRequest: the connection has been
\* stored and the namespace manager created, the catch block builds the
\* response from request.id, and the server publishes it
Unparsed(event) ==
    \E connection \in {resolveConnection(connections, registry, event.pubkey)} :
    \E response \in {errorResponse(IF idOf(event.content) = Null THEN NoId
                                   ELSE idOf(event.content)[1],
                                   "INTERNAL", "Internal server error")} :
        /\ events' = events + 1
        /\ connections' = [connections EXCEPT ![event.pubkey] = Some(connection)]
        /\ namespaceManagers' = getNamespaceManager(namespaceManagers, connection)
        /\ sendResponse(response, event.pubkey)
        /\ lastResp' = Some([pubkey |-> event.pubkey, request |-> event.content,
                             response |-> response, stage |-> "parse"])
        /\ lastEvent' = Some([event |-> event, outcome |-> "parse"])
        /\ UNCHANGED <<now, registry, store, cache, tasks, lastCall, accepted,
                       traffic, firstReply, env, probe,
                   lifecycle>>

handleIncomingEvent(event, backendOk) ==
    IF event.sig = "missing"
    THEN Dropped(event, "nosig")
    ELSE IF decrypt(dmCrypto, event.content) = Null
    THEN Dropped(event, "undecryptable")
    ELSE IF ~parsesAsObject(decrypt(dmCrypto, event.content)[1])
    THEN Dropped(event, "notjson")
    ELSE IF ~isRequest(decrypt(dmCrypto, event.content)[1])
    THEN Unparsed(event)
    ELSE /\ Receive(event.pubkey, decrypt(dmCrypto, event.content)[1].request,
                    backendOk)
         /\ lastEvent' = Some([event |-> event, outcome |-> "routed"])

-----------------------------------------------------------------------------
(* SpecEnvelope: the client pkB, under the default policy or under a       *)
(* registry entry that allows no del, has events delivered that are sound  *)
(* or have one fault each: no or a wrong signature, a created_at far in    *)
(* the future or the past, a content that is no request.  An event is      *)
(* delivered when no request is being handled, and a long time may pass    *)
(* once.                                                                   *)

MaxEnvelopeEvents == 3

\* the filter of the subscription (start, lines 79-84): since is the second
\* at which the server started
subscribedSince == 0

\* the tolerances of the specification for created_at, in seconds
clockSkewMax == 60

eventMaxAge == 300

\* a long time: a second more than eventMaxAge
WaitMs == (eventMaxAge + 1) * 1000

Event(pubkey, sig, created_at, content) ==
    [pubkey |-> pubkey, sig |-> sig, created_at |-> created_at, content |-> content]

RequestContent(request) ==
    [kind |-> "request", scheme |-> "nip44", request |-> request]

EnvelopeRequests ==
    {Req("set", "r1", Some(<<"k">>), Some(ValueA), Null, Null),
     Req("del", "r1", Some(<<"k">>), Null, Null, Null),
     Req("del", "r2", Some(<<"k">>), Null, Null, Null),
     Req("get", "r2", Null, Null, Null, Null),
     Req("set", "r2", Some(<<"k">>), Null, Null, Null),
     Req("mget", "r2", Null, Null, Null, Some(<<KeyUser, <<>> >>))}

\* the contents that are no request
FaultyContents ==
    {[kind |-> "undecryptable", scheme |-> "none"],
     [kind |-> "text", scheme |-> "nip44"], [kind |-> "null", scheme |-> "nip44"],
     [kind |-> "scalar", scheme |-> "nip44"],
     [kind |-> "malformed", scheme |-> "nip44", id |-> Null],
     [kind |-> "malformed", scheme |-> "nip04", id |-> Some("r1")]}

\* the events that may be delivered at time t
EnvelopeEvents(t) ==
    {Event("pkB", "valid", t \div 1000, RequestContent(request)) :
        request \in EnvelopeRequests}
    \cup {Event("pkB", sig, t \div 1000, RequestContent(request)) :
            sig \in {"missing", "invalid"},
            request \in {Req("set", "r1", Some(<<"k">>), Some(ValueA), Null, Null)}}
    \cup {Event("pkB", "valid", created_at, RequestContent(request)) :
            created_at \in {(t \div 1000) + clockSkewMax + 1,
                            (t \div 1000) - eventMaxAge - 1},
            request \in {Req("set", "r1", Some(<<"k">>), Some(ValueA), Null, Null)}}
    \cup {Event("pkB", "valid", t \div 1000, content) : content \in FaultyContents}

InitEnvelope == InitServer(MainRegistries)

\* the relays deliver an event that matches the filter of the subscription
Deliver(event, backendOk) ==
    /\ events < MaxEnvelopeEvents
    /\ tasks = EmptyBag
    /\ event.created_at >= subscribedSince
    /\ handleIncomingEvent(event, backendOk)

\* A long time passes.
Wait ==
    /\ now < WaitMs
    /\ now' = now + WaitMs
    /\ UNCHANGED <<registry, connections, namespaceManagers, store, cache, tasks,
                   events, lastCall, lastResp, accepted, traffic, firstReply,
                   published, lastEvent, dmCrypto, env, lastSent, probe,
                   lifecycle>>

NextEnvelope ==
    \/ \E event \in EnvelopeEvents(now), backendOk \in BOOLEAN :
          Deliver(event, backendOk)
    \/ \E task \in BagToSet(tasks) : Complete(task)
    \/ Wait

SpecEnvelope == InitEnvelope /\ [][NextEnvelope]_vars

-----------------------------------------------------------------------------
(* SpecCrypto: the client pkB, under the default policy, has requests       *)
(* delivered that are encrypted under NIP-44 or under NIP-04, while the    *)
(* encryption calls of the library and the relays may begin or cease to    *)
(* fail.  An event is delivered when no request is being handled.          *)

MaxCryptoEvents == 3

CryptoRequests(id) ==
    {Req("get_info", id, Null, Null, Null, Null),
     Req("set", id, Some(<<"k">>), Some(ValueA), Null, Null)}

CryptoEvents(t, id) ==
    {Event("pkB", "valid", t \div 1000,
           [kind |-> "request", scheme |-> scheme, request |-> request]) :
        scheme \in {"nip44", "nip04"}, request \in CryptoRequests(id)}

Environments ==
    [nip44Encrypts : BOOLEAN, nip04Encrypts : BOOLEAN, relaysAccept : BOOLEAN]

InitCrypto == InitServer({Registry(Null)})

DeliverCrypto(event) ==
    /\ events < MaxCryptoEvents
    /\ tasks = EmptyBag
    /\ handleIncomingEvent(event, TRUE)

\* the encryption of the next response, or the relays, begin or cease to fail
Disturb(e) ==
    /\ e # env
    /\ env' = e
    /\ UNCHANGED <<now, registry, connections, namespaceManagers, store, cache,
                   tasks, events, lastCall, lastResp, accepted, traffic,
                   firstReply, published, lastEvent, dmCrypto, lastSent, probe,
                   lifecycle>>

NextCrypto ==
    \/ /\ events < MaxCryptoEvents
       /\ \E event \in CryptoEvents(now, EventIds[events + 1]) : DeliverCrypto(event)
    \/ \E task \in BagToSet(tasks) : Complete(task)
    \/ \E e \in Environments : Disturb(e)

SpecCrypto == InitCrypto /\ [][NextCrypto]_vars

-----------------------------------------------------------------------------
(* Properties of the responses and of the envelope *)

\* exactly one of result and error is non-null
WellShaped(response) == (response.kind = "none") # (response.code = "OK")

\* the id of the request that the returned response r answers
IdAnswered(r) ==
    IF r.stage # "parse" THEN r.request.id
    ELSE IF idOf(r.request) = Null THEN NoId
    ELSE idOf(r.request)[1]

\* C11 (response shape): every response that handleRequest builds, returns
\* or keeps in the idempotency cache has exactly one of result and error
\* non-null and carries the id of the request it answers, on the paths of
\* the cached replay, the policy rejections, the handlers and the catch
\* block alike.
C11_ResponseShape ==
    /\ lastResp # Null =>
          /\ WellShaped(lastResp[1].response)
          /\ lastResp[1].response.id = IdAnswered(lastResp[1])
    /\ lastCall # Null =>
          /\ WellShaped(lastCall[1].response)
          /\ lastCall[1].response.id = lastCall[1].request.id
    /\ \A key \in DOMAIN cache :
          /\ WellShaped(cache[key].response)
          /\ cache[key].response.id = key[2]
    /\ \A task \in BagToSet(tasks) :
          /\ WellShaped(task.response)
          /\ task.response.id = task.request.id

\* a del under the id r1 has been answered from the cache with the {ok: true}
\* of the set handled before under that id
C11_Witness ==
    /\ lastResp # Null
    /\ lastResp[1].stage = "cached"
    /\ lastResp[1].request.method = "del"
    /\ lastResp[1].response.id = "r1"
    /\ lastResp[1].response.kind = "ok"
    /\ published = 2

\* the event has no signature, or a content that no scheme decrypts or
\* whose plaintext is not JSON
EnvelopeFault(event) ==
    \/ event.sig = "missing"
    \/ event.content.kind \in {"undecryptable", "text"}

\* C12 (envelope faults are silent): the handling of an inbound event
\* without signature, with a content that fails decryption under both
\* schemes, or with a plaintext that is not JSON publishes no response and
\* leaves the connection map, the rate and byte state, the idempotency
\* cache, the keyspace with the audit list, and the requests under way
\* unchanged.
C12_EnvelopeFaultsSilent ==
    [][(events' = events + 1 /\ EnvelopeFault(lastEvent'[1].event)) =>
          UNCHANGED <<published, lastResp, connections, namespaceManagers, store,
                      cache, tasks>>]_vars

\* an event whose content does not decrypt has been dropped after a set of
\* the same client was answered and audited
C12_Witness ==
    /\ lastEvent # Null
    /\ lastEvent[1].event.content.kind = "undecryptable"
    /\ lastEvent[1].outcome = "undecryptable"
    /\ events = 2
    /\ published = 1
    /\ connections["pkB"] # Null
    /\ Len(AuditList(store, now)) = 1

\* C13 (signature check): an inbound event reaches the protocol router only
\* if its signature is present and verifies under event.pubkey; an event
\* whose signature is present but does not verify is dropped before
\* decryption.
C13_SignatureVerified ==
    lastEvent # Null =>
        /\ lastEvent[1].outcome \in {"routed", "parse"} =>
               lastEvent[1].event.sig = "valid"
        /\ lastEvent[1].event.sig = "invalid" => lastEvent[1].outcome = "nosig"

\* C14 (event freshness): an inbound event whose created_at is more than
\* clockSkewMax seconds in the future, or which is older than eventMaxAge
\* seconds, never reaches the router.
C14_EventFresh ==
    (lastEvent # Null /\ lastEvent[1].outcome \in {"routed", "parse"}) =>
        /\ lastEvent[1].event.created_at * 1000 <= now + (clockSkewMax * 1000)
        /\ now - (lastEvent[1].event.created_at * 1000) <= eventMaxAge * 1000

\* C15 (audit completeness): every request whose envelope passed leaves one
\* audit record, whatever its outcome; the audit list therefore holds as many
\* records as responses have been published.
C15_AuditComplete == Len(AuditList(store, now)) = published

\* C16 (audit key unreachable): no backend call issued for a client request,
\* from any connection, addresses the key of the audit list.
C16_AuditKeyUnreachable ==
    lastCall # Null => \A i \in DOMAIN lastCall[1].keys :
                           lastCall[1].keys[i] # auditKey

\* C17 (pipeline precedence): the error returned is that of the first failing
\* stage, and parameter validation precedes namespace resolution: a request
\* that passed the allowlist, the rate limit and the byte budget and names a
\* key that fails the key validation (empty, too long, NUL), alone or in a
\* list of several keys, is answered with a validation error, never with the
\* RESTRICTED of the namespace stage, and issues no backend call.
C17_FirstFailingStage ==
    (/\ lastCall # Null
     /\ lastCall[1].stage = "handler"
     /\ \E i \in 1..Len(RequestKeys(lastCall[1].request)) :
            ~validateKey(RequestKeys(lastCall[1].request)[i],
                         LimitsOf(lastCall[1].pubkey).maxKey)) =>
        /\ lastCall[1].response.code \in {"INVALID_KEY", "PAYLOAD_TOO_LARGE"}
        /\ lastCall[1].op = "none"

\* the params of the request fail the schema of its method
\* (src/src/protocol/schema.ts, getParamsSchema .. ttlParamsSchema)
paramsFailSchema(request) ==
    CASE request.method \in {"get", "del", "exists", "ttl"} -> request.key = Null
      [] request.method = "set" ->
             \/ request.key = Null
             \/ request.value = Null
             \/ (request.ttl # Null /\ request.ttl[1] <= 0)
      [] request.method = "mget" ->
             request.keys = Null \/ request.keys = Some(<<>>)
      [] request.method = "expire" ->
             request.key = Null \/ request.ttl = Null \/ request.ttl[1] <= 0
      [] OTHER -> FALSE

\* C18 (parameter-schema failures): a request that reaches its handler with
\* params that fail the method's schema is answered INVALID_KEY,
\* INVALID_VALUE or PAYLOAD_TOO_LARGE, and no backend call is issued.
C18_SchemaFailureCodes ==
    (/\ lastCall # Null
     /\ lastCall[1].stage = "handler"
     /\ paramsFailSchema(lastCall[1].request)) =>
        /\ lastCall[1].response.code \in
               {"INVALID_KEY", "INVALID_VALUE", "PAYLOAD_TOO_LARGE"}
        /\ lastCall[1].op = "none"

\* C19 (structural parse failure): a decrypted JSON value that is no
\* structurally valid request is answered INTERNAL with its id when the id
\* can be recovered, and is dropped without any published response otherwise.
C19_ParseFailure ==
    [][(/\ events' = events + 1
        /\ lastEvent'[1].outcome = "parse") =>
           IF idOf(lastEvent'[1].event.content) # Null
           THEN /\ published' = published + 1
                /\ lastResp'[1].response.code = "INTERNAL"
                /\ lastResp'[1].response.id = idOf(lastEvent'[1].event.content)[1]
           ELSE UNCHANGED <<published, lastResp>>]_vars

\* C20 (default policy for unknown clients): the connection created by the
\* first event of a pubkey without registry entry has the configured
\* namespace, all eight methods and the configured limits; the connection of
\* a pubkey with a registry entry has the entry's namespace, methods and
\* limits.  Every handled request runs under the namespace of that connection.
C20_DefaultPolicy ==
    /\ Cardinality(AllMethods) = 8
    /\ \A p \in Pubkeys :
           connections[p] # Null =>
               IF registry[p] = Null
               THEN /\ connections[p][1].namespace = configNamespace
                    /\ connections[p][1].allowedMethods = AllMethods
                    /\ connections[p][1].limits =
                           [mps |-> ConfigMps, bps |-> ConfigBps,
                            maxKey |-> ConfigMaxKey, maxVal |-> ConfigMaxVal,
                            mgetMax |-> ConfigMgetMax]
               ELSE /\ connections[p][1].namespace = registry[p][1].namespace
                    /\ connections[p][1].allowedMethods = registry[p][1].allowedMethods
                    /\ connections[p][1].limits = registry[p][1].limits
    /\ lastCall # Null =>
           /\ connections[lastCall[1].pubkey] # Null
           /\ lastCall[1].namespace = connections[lastCall[1].pubkey][1].namespace

\* both clients have been served: pkA, unknown to the registry, under the
\* default policy, and pkB under its registry entry
C20_Witness ==
    /\ registry["pkA"] = Null
    /\ registry["pkB"] # Null
    /\ connections["pkA"] # Null
    /\ connections["pkB"] # Null
    /\ connections["pkA"][1].namespace = configNamespace
    /\ connections["pkB"][1].namespace = <<"a", "p", "p", "B">>
    /\ lastCall # Null
    /\ lastCall[1].pubkey = "pkB"
    /\ lastCall[1].op = "set"
    /\ tasks = EmptyBag

-----------------------------------------------------------------------------
(* Properties of the registry, the limits and the encryption *)

\* C21 (registry validation): a registry entry with a malformed namespace
\* never becomes the policy of a connection: every connection in use has a
\* namespace that is non-empty, ends in ':' and otherwise consists of
\* letters, digits, '_' and '-'.
C21_NamespaceWellFormed ==
    \A p \in Pubkeys :
        connections[p] # Null => validateNamespace(connections[p][1].namespace)

\* the limits that the policy of the connection states: those of the
\* configuration, or those written into the registry document
statedLimits(limits) ==
    IF "maxkey" \in DOMAIN limits
    THEN [maxKey |-> limits.maxkey, maxVal |-> limits.maxval,
          mgetMax |-> limits.mget_max]
    ELSE [maxKey |-> limits.maxKey, maxVal |-> limits.maxVal,
          mgetMax |-> limits.mgetMax]

\* the last request reached the handler of method with params that pass
\* the method's schema
Handled(methods) ==
    /\ lastCall # Null
    /\ lastCall[1].stage = "handler"
    /\ lastCall[1].request.method \in methods
    /\ ~paramsFailSchema(lastCall[1].request)

\* C22 (key length limit): on every connection, under the default policy or
\* loaded from the registry document, a key of exactly max_key characters as
\* sent is not rejected for its length, and a key of max_key + 1 characters
\* is answered INVALID_KEY without a backend call.
C22_KeyLengthLimit ==
    Handled({"get", "set", "del", "exists", "expire", "ttl"}) =>
        LET key == lastCall[1].request.key[1]
            maxKey == statedLimits(LimitsOf(lastCall[1].pubkey)).maxKey
        IN  /\ Len(key) = maxKey + 1 =>
                   /\ lastCall[1].response.code = "INVALID_KEY"
                   /\ lastCall[1].op = "none"
            /\ (Len(key) = maxKey /\ ~Includes(key, <<"NUL">>)) =>
                   lastCall[1].response.code # "INVALID_KEY"

\* C23 (value size limit): a set of a valid key whose value decodes to
\* exactly max_val bytes is not rejected for its size, and one whose value
\* decodes to max_val + 1 bytes is answered INVALID_VALUE without a backend
\* write.
C23_ValueSizeLimit ==
    (/\ Handled({"set"})
     /\ validateKey(lastCall[1].request.key[1],
                    statedLimits(LimitsOf(lastCall[1].pubkey)).maxKey)) =>
        LET size == Len(Base64Decode(lastCall[1].request.value[1]))
            maxVal == statedLimits(LimitsOf(lastCall[1].pubkey)).maxVal
        IN  /\ size = maxVal + 1 =>
                   /\ lastCall[1].response.code = "INVALID_VALUE"
                   /\ lastCall[1].op = "none"
            /\ size = maxVal => lastCall[1].response.code # "INVALID_VALUE"

\* C24 (mget count limit): an mget of n keys with 1 <= n <= mget_max is not
\* rejected for its count; an mget with n = 0 or n > mget_max is answered
\* PAYLOAD_TOO_LARGE without a backend call.
C24_MgetCountLimit ==
    (/\ lastCall # Null
     /\ lastCall[1].stage = "handler"
     /\ lastCall[1].request.method = "mget"
     /\ lastCall[1].request.keys # Null) =>
        LET n == Len(lastCall[1].request.keys[1])
            mgetMax == statedLimits(LimitsOf(lastCall[1].pubkey)).mgetMax
        IN  IF 1 <= n /\ n <= mgetMax
            THEN lastCall[1].response.code # "PAYLOAD_TOO_LARGE"
            ELSE /\ lastCall[1].response.code = "PAYLOAD_TOO_LARGE"
                 /\ lastCall[1].op = "none"

\* C25 (mget agrees with get): while a successful mget of n keys awaits its
\* reply, its result has n entries and entry i is what a get of key i
\* returns in the backend state at hand: the value, or null for a missing
\* key.
C25_MgetAgreesWithGet ==
    (/\ lastCall # Null
     /\ lastCall[1].op = "mget"
     /\ lastCall[1].response.code = "OK"
     /\ tasks # EmptyBag) =>
        /\ Len(lastCall[1].response.vals) = Len(lastCall[1].request.keys[1])
        /\ \A i \in 1..Len(lastCall[1].keys) :
               /\ ~WrongType(store, now, lastCall[1].keys[i])
               /\ lastCall[1].response.vals[i] = kvGet(store, now, lastCall[1].keys[i])

\* C26 (decrypt tries both schemes): whatever happened before, a request
\* validly encrypted under NIP-44 (V2) or under NIP-04 (V1) is decrypted
\* and never dropped as undecryptable.
C26_BothSchemesTried ==
    (lastEvent # Null /\ lastEvent[1].event.content.scheme \in {"nip44", "nip04"}) =>
        lastEvent[1].outcome # "undecryptable"

\* C27 (scheme availability is configuration): the availability of the two
\* schemes, which get_info reports and encrypt consults, is at all times
\* what it was when the process started.
C27_AvailabilityFixed ==
    /\ dmCrypto = NewDMCrypto
    /\ (lastResp # Null /\ lastResp[1].response.kind = "info") =>
           lastResp[1].response.info[1].encryption = getCapabilities(NewDMCrypto)

\* C28 (request deadline): no request stays unanswered beyond the request
\* timeout: a handleRequest call that waits for its backend reply is ended
\* with INTERNAL before requestTimeoutMs have passed since the event arrived.
C28_Deadline ==
    \A task \in BagToSet(tasks) : now - task.startTime < requestTimeoutMs

\* C29 (per-connection serialization): the requests of one client are
\* processed one after the other: while a request of a client waits for its
\* backend reply, no other request of that client is past its idempotency
\* lookup, rate check and byte check with a backend operation of its own.
C29_Serialized ==
    \A t1, t2 \in BagToSet(tasks) :
        t1.pubkey = t2.pubkey => (t1 = t2 /\ CopiesIn(t1, tasks) = 1)

\* C30 (response emission): a response event is published only in the step
\* that ends the handling of an inbound event, at most one per such step;
\* it has kind 23195, the single tag p with the pubkey of the event
\* answered, the server's pubkey and signature, and the response returned
\* for that event's request as its plaintext.  When the encryption or the
\* relays fail nothing is published, then or later.
C30_ResponseEmission ==
    [][/\ published' \in {published, published + 1}
       /\ published' = published + 1 =>
              /\ lastResp' # Null
              /\ lastSent' # Null
              /\ lastSent'[1].kind = 23195
              /\ lastSent'[1].tags = << <<"p", lastResp'[1].pubkey>> >>
              /\ lastSent'[1].pubkey = "server"
              /\ lastSent'[1].sig = "valid"
              /\ lastSent'[1].plaintext = lastResp'[1].response
              /\ \/ events' = events + 1 /\ BagCardinality(tasks') = BagCardinality(tasks)
                 \/ events' = events /\ BagCardinality(tasks') = BagCardinality(tasks) - 1
       /\ published' = published => lastSent' = lastSent
       /\ (encrypt(dmCrypto, env).method = "failed" \/ ~env.relaysAccept) =>
              published' = published]_vars

\* the first event was answered and published; the response to the second
\* was built while the relays refused, and nothing was published for it
C30_Witness ==
    /\ events = 2
    /\ tasks = EmptyBag
    /\ published = 1
    /\ ~env.relaysAccept
    /\ lastResp # Null
    /\ lastResp[1].request.id = "r2"
    /\ lastResp[1].request.method = "set"
    /\ lastSent # Null
    /\ lastSent[1].plaintext.id = "r1"
    /\ lastSent[1].tags = << <<"p", "pkB">> >>

-----------------------------------------------------------------------------
(* SpecAudit: the audit append step by step.  AuditLogger.log awaits LPUSH  *)
(* and then LTRIM, and handleRequest awaits log before it returns the       *)
(* response (router.ts 145-157).  A task whose handler has returned carries *)
(* the command log waits for in its field op.  The list starts empty or, as *)
(* after 10 000 audited requests, full.  Either command may be rejected by  *)
(* the backend, and nothing obliges the backend to reply.                   *)

MaxAuditEvents == 2

AuditOps == {"lpush", "ltrim"}

\* the records that earlier requests left on the list
OldRecords(n) == [i \in 1..n |-> "old"]

AuditRequests(id) ==
    {Req(m, id, Some(<<"k">>), IF m = "set" THEN Some(ValueA) ELSE Null, Null, Null) :
        m \in {"set", "get"}}

InitAudit ==
    /\ now = 0
    /\ registry = Registry(Null)
    /\ connections = [p \in Pubkeys |-> Null]
    /\ namespaceManagers = << >>
    /\ store \in {<< >>,
                  auditKey :> [val |-> OldRecords(maxEntries), exp |-> NoExpiry,
                               list |-> TRUE]}
    /\ cache = << >>
    /\ tasks = EmptyBag
    /\ events = 0
    /\ lastCall = Null
    /\ lastResp = Null
    /\ accepted = [p \in Pubkeys |-> <<>>]
    /\ traffic = [p \in Pubkeys |-> <<>>]
    /\ firstReply = << >>
    /\ published = 0
    /\ lastEvent = Null
    /\ dmCrypto = NewDMCrypto
    /\ env = Fair
    /\ lastSent = Null
    /\ probe = Null
    /\ lifecycle = Running

ReceiveAudit(pubkey, request) ==
    /\ events < MaxAuditEvents
    /\ Receive(pubkey, request, TRUE)
    /\ UNCHANGED lastEvent

\* the task with another command to wait for
Awaiting(task, op) == (tasks (-) SetToBag({task})) (+) SetToBag({[task EXCEPT !.op = op]})

\* The backend replied to the handler's call: the response is cached, its
\* size is consumed from the byte budget, and log issues LPUSH.
HandlerReturns(task) ==
    /\ BagIn(task, tasks)
    /\ task.op \notin AuditOps
    /\ tasks' = Awaiting(task, "lpush")
    /\ cache' = cacheAfterHandler(cache, task.pubkey, task.response, now)
    /\ connections' =
          [connections EXCEPT ![task.pubkey] =
              Some(connectionAfterHandler(connections[task.pubkey][1],
                                          task.response, now))]
    /\ UNCHANGED <<now, registry, namespaceManagers, store, events, lastCall,
                   lastResp, accepted, traffic, firstReply, published, lastEvent,
                   dmCrypto, env, lastSent, probe,
                   lifecycle>>

\* the record log pushes for the task
RecordOf(task) ==
    auditRecord(AuditEntry(task.request, task.response, task.pubkey,
                           now - task.startTime), now)

\* The backend executed LPUSH and replied: log issues LTRIM.
Lpush(task) ==
    /\ BagIn(task, tasks)
    /\ task.op = "lpush"
    /\ ~NoList(store, now, auditKey)
    /\ store' = lpush(store, now, auditKey, RecordOf(task))
    /\ tasks' = Awaiting(task, "ltrim")
    /\ UNCHANGED <<now, registry, connections, namespaceManagers, cache, events,
                   lastCall, lastResp, accepted, traffic, firstReply, published,
                   lastEvent, dmCrypto, env, lastSent, probe,
                   lifecycle>>

\* log has returned: handleRequest returns the response and
\* handleIncomingEvent publishes it
LogReturns(task) ==
    /\ tasks' = tasks (-) SetToBag({task})
    /\ sendResponse(task.response, task.pubkey)
    /\ lastResp' = Some([pubkey |-> task.pubkey, request |-> task.request,
                         response |-> task.response, stage |-> "handler"])
    /\ UNCHANGED <<now, registry, connections, namespaceManagers, cache, events,
                   lastCall, accepted, traffic, firstReply, lastEvent, env, probe,
                   lifecycle>>

\* The backend executed LTRIM and replied.
Ltrim(task) ==
    /\ BagIn(task, tasks)
    /\ task.op = "ltrim"
    /\ store' = ltrim(store, now, auditKey, 0, maxEntries - 1)
    /\ LogReturns(task)

\* The backend rejected the command log waits for (or the connection to it
\* was given up): the catch block of log writes a line to the local log.
AuditFails(task) ==
    /\ BagIn(task, tasks)
    /\ task.op \in AuditOps
    /\ UNCHANGED store
    /\ LogReturns(task)

NextAudit ==
    \/ /\ events < MaxAuditEvents
       /\ \E request \in AuditRequests(EventIds[events + 1]) :
              ReceiveAudit("pkA", request)
    \/ \E task \in BagToSet(tasks) : HandlerReturns(task)
    \/ \E task \in BagToSet(tasks) : Lpush(task)
    \/ \E task \in BagToSet(tasks) : Ltrim(task)
    \/ \E task \in BagToSet(tasks) : AuditFails(task)

SpecAudit == InitAudit /\ [][NextAudit]_vars

-----------------------------------------------------------------------------
(* Properties of the audit trail *)

\* the log calls that have pushed their record and not yet seen the end of
\* their trim
TrimsPending ==
    BagCardinality([task \in {x \in BagToSet(tasks) : x.op = "ltrim"} |-> tasks[task]])

\* C31 (audit list bound): the audit list never holds more than 10 000
\* records plus one for each log call between its push and its trim, so at
\* most 10 000 once the calls have completed; a push puts the record at the
\* head and leaves the others in their order, and a trim removes records
\* from the tail only and leaves at most 10 000.
C31_AuditListBound ==
    /\ [](Len(AuditList(store, now)) <= maxEntries + TrimsPending)
    /\ [][\A task \in BagToSet(tasks) :
             /\ Lpush(task) =>
                    /\ Head(AuditList(store', now')) = RecordOf(task)
                    /\ Tail(AuditList(store', now')) = AuditList(store, now)
             /\ Ltrim(task) =>
                    /\ Len(AuditList(store', now')) <= maxEntries
                    /\ AuditList(store', now') =
                           SubSeq(AuditList(store, now), 1,
                                  Len(AuditList(store', now')))]_vars

\* C32 (audit value size): the record written for a handled request carries
\* as valueSize the number of bytes its value decodes to, and 0 when the
\* request has no value.
C32_AuditValueSize ==
    (/\ lastResp # Null
     /\ lastResp[1].stage = "handler"
     /\ AuditList(store, now) # <<>>) =>
        Head(AuditList(store, now)).valueSize =
            IF lastResp[1].request.value = Null THEN 0
            ELSE Len(Base64Decode(lastResp[1].request.value[1]))

\* C33 (audit is best-effort and non-blocking): the response of a request
\* is not held back by the audit append: no handleRequest call whose handler
\* has returned waits, its response unpublished, for the backend to reply
\* to LPUSH or LTRIM.
C33_AuditNonBlocking ==
    \A task \in BagToSet(tasks) : task.op \notin AuditOps

-----------------------------------------------------------------------------
(* Properties of the relay pool *)

-----------------------------------------------------------------------------
(* SpecShutdown: the end of the process.  The client pkA sends set and get  *)
(* of one key; SIGINT and SIGTERM are delivered at any time, each of them   *)
(* calls shutdown (server.ts 60-62), and the two backend clients answer     *)
(* quit or fail.  Events arrive while the relay pool is open, and a request *)
(* that waits for the backend is completed as long as the process lives.    *)

MaxShutdownEvents == 2

MaxSignals == 2

Signals == {"SIGINT", "SIGTERM"}

\* NostrKVServer.shutdown up to its first await: the guard, the flag, then
\* relayPool.close(), router.destroy() and the call of kvAdapter.close()
shutdown(l) ==
    IF l.isShuttingDown THEN l
    ELSE [l EXCEPT !.isShuttingDown = TRUE,
                   !.relayPool = "closed",
                   !.router = "destroyed",
                   !.kvAdapter = "closing",
                   !.calls = @ \o <<"relayPool.close", "router.destroy",
                                    "kvAdapter.close">>]

\* A signal is delivered: its handler calls shutdown; router.destroy clears
\* the idempotency cache.
Signal(sig) ==
    /\ lifecycle.exit = Null
    /\ Len(lifecycle.signals) < MaxSignals
    /\ lifecycle' = [shutdown(lifecycle) EXCEPT !.signals = Append(@, sig)]
    /\ cache' = IF lifecycle.isShuttingDown THEN cache ELSE << >>
    /\ UNCHANGED <<now, registry, connections, namespaceManagers, store, tasks,
                   events, lastCall, lastResp, accepted, traffic, firstReply,
                   published, lastEvent, dmCrypto, env, lastSent, probe>>

\* the steps of shutdown leave the server's collections alone
ShutdownStep ==
    UNCHANGED <<now, registry, connections, namespaceManagers, store, cache, tasks,
                events, lastCall, lastResp, accepted, traffic, firstReply,
                published, lastEvent, dmCrypto, env, lastSent, probe>>

\* kvAdapter.close() has settled: the backend answered QUIT after the
\* commands sent before it, and shutdown calls redis.quit(); or the call
\* failed and the catch block exits with code 1
BackendClosed(ok) ==
    /\ lifecycle.exit = Null
    /\ lifecycle.kvAdapter = "closing"
    /\ ok => tasks = EmptyBag
    /\ lifecycle' =
          IF ok
          THEN [lifecycle EXCEPT !.kvAdapter = "closed", !.redis = "closing",
                                 !.calls = Append(@, "redis.quit")]
          ELSE [lifecycle EXCEPT !.exit = Some(1),
                                 !.calls = Append(@, "process.exit")]
    /\ ShutdownStep

\* redis.quit() has settled: the process exits, with code 0 or, from the
\* catch block, with code 1
RedisQuit(ok) ==
    /\ lifecycle.exit = Null
    /\ lifecycle.redis = "closing"
    /\ lifecycle' =
          IF ok
          THEN [lifecycle EXCEPT !.redis = "closed", !.exit = Some(0),
                                 !.calls = Append(@, "process.exit")]
          ELSE [lifecycle EXCEPT !.exit = Some(1),
                                 !.calls = Append(@, "process.exit")]
    /\ ShutdownStep

ShutdownRequests(id) ==
    {Req(m, id, Some(<<"k">>), IF m = "set" THEN Some(ValueA) ELSE Null, Null, Null) :
        m \in {"set", "get"}}

ReceiveWhileOpen(pubkey, request) ==
    /\ events < MaxShutdownEvents
    /\ lifecycle.relayPool = "open"
    /\ Receive(pubkey, request, TRUE)
    /\ UNCHANGED lastEvent

CompleteWhileAlive(task) ==
    /\ lifecycle.exit = Null
    /\ Complete(task)

NextShutdown ==
    \/ /\ events < MaxShutdownEvents
       /\ \E request \in ShutdownRequests(EventIds[events + 1]) :
              ReceiveWhileOpen("pkA", request)
    \/ \E task \in BagToSet(tasks) : CompleteWhileAlive(task)
    \/ \E sig \in Signals : Signal(sig)
    \/ \E ok \in BOOLEAN : BackendClosed(ok)
    \/ \E ok \in BOOLEAN : RedisQuit(ok)

SpecShutdown == InitServer({Registry(Null)}) /\ [][NextShutdown]_vars

\* C35 (shutdown sequence): shutdown closes the subscriptions, destroys the
\* router caches, closes the backend, closes the relays and exits, in this
\* order and each once, whatever signals are delivered: the relay pool is
\* open while the backend is being closed and is closed only after the
\* backend, the router is destroyed before the backend is closed, and the
\* process exits only after the relay pool has been closed.
C35_ShutdownSequence ==
    /\ lifecycle.kvAdapter = "closing" => lifecycle.relayPool = "open"
    /\ lifecycle.relayPool = "closed" => lifecycle.kvAdapter = "closed"
    /\ lifecycle.kvAdapter # "open" => lifecycle.router = "destroyed"
    /\ lifecycle.exit # Null => lifecycle.relayPool = "closed"
    /\ \A i, j \in 1..Len(lifecycle.calls) :
           lifecycle.calls[i] = lifecycle.calls[j] => i = j

-----------------------------------------------------------------------------
(* Properties of replays and rejections *)

\* C36 (a cached replay has no side effects): a request answered from the
\* idempotency cache adds no timestamp to the request window, records no
\* bytes, issues no backend operation, writes no audit record and leaves
\* the cache, the timestamp of its entry included, as it is.  An entry is
\* served while it is at most 60 000 ms old; the first lookup after that
\* deletes it and the request is evaluated afresh.
C36_CachedReplay ==
    [][events' = events + 1 =>
          LET call == lastCall'[1]
              key == getCacheKey(call.pubkey, call.request.id)
          IN  /\ call.stage = "cached" =>
                     /\ key \in DOMAIN cache
                     /\ call.response = cache[key].response
                     /\ call.op = "none"
                     /\ connections' = connections
                     /\ store' = store
                     /\ AuditList(store', now') = AuditList(store, now)
                     /\ cache' = cache
                     /\ tasks' = tasks
                     /\ accepted' = accepted
                     /\ traffic' = traffic
              /\ key \in DOMAIN cache =>
                     IF now - cache[key].timestamp <= cacheWindowMs
                     THEN call.stage = "cached"
                     ELSE /\ call.stage # "cached"
                          /\ \/ key \notin DOMAIN cache'
                             \/ cache'[key].timestamp = now]_vars

\* a response cached 60 000 ms ago has just been served from the cache, to
\* a client whose request window and byte records are not empty
C36_Witness ==
    /\ lastCall # Null
    /\ lastCall[1].stage = "cached"
    /\ getCacheKey(lastCall[1].pubkey, lastCall[1].request.id) \in DOMAIN cache
    /\ now - cache[getCacheKey(lastCall[1].pubkey, lastCall[1].request.id)].timestamp
           = cacheWindowMs
    /\ Len(AuditList(store, now)) = 1
    /\ Len(accepted[lastCall[1].pubkey]) = 1
    /\ Len(traffic[lastCall[1].pubkey]) = 1

C38_Memoized ==
    [][/\ (lastResp' # lastResp /\ lastResp'[1].stage = "handler") =>
              LET key == getCacheKey(lastResp'[1].pubkey, lastResp'[1].request.id)
              IN  /\ key \in DOMAIN cache'
                  /\ cache'[key] = [response |-> lastResp'[1].response,
                                    timestamp |-> now]
       /\ events' = events + 1 =>
              LET call == lastCall'[1] IN
              /\ (call.first # Null /\ call.first[1].stage = "handler") =>
                     /\ call.stage = "cached"
                     /\ call.op = "none"
                     /\ call.response = call.first[1].response
              /\ call.stage = "cached" =>
                     <<call.pubkey, call.request.id>> \in DOMAIN firstReply]_vars

-----------------------------------------------------------------------------
(* Properties of the connection map *)

\* the requests of pubkey that wait for their backend reply
InFlightOf(pubkey) ==
    BagCardinality([task \in {x \in BagToSet(tasks) : x.pubkey = pubkey} |->
                        tasks[task]])

\* C39 (one connection object per client): however the events of a client
\* interleave, the map holds for its pubkey the one connection all its
\* requests ran under: the request window of that connection holds the
\* timestamp of every request the rate limit accepted in the last 60 s, its
\* byte records hold one record for every handled request that has
\* returned (none has left the window: no time passes in SpecConcurrent),
\* and a pubkey without a connection has had no request.
C39_OneConnection ==
    \A p \in Pubkeys :
        IF connections[p] = Null
        THEN accepted[p] = <<>> /\ InFlightOf(p) = 0
        ELSE LET connection == connections[p][1] IN
             /\ connection.pubkey = p
             /\ RequestsInWindow(connection.rateLimitState.requests, now)
                    = RequestsInWindow(accepted[p], now)
             /\ Len(connection.rateLimitState.bytes) + InFlightOf(p)
                    = Len(traffic[p])

\* two first events of the unseen client pkA were received before the
\* backend replied to either: both timestamps are in the window of the one
\* connection of pkA
C39_Witness ==
    /\ events = 2
    /\ InFlightOf("pkA") = 2
    /\ connections["pkA"] # Null
    /\ connections["pkA"][1].rateLimitState.requests = <<0, 0>>
    /\ connections["pkA"][1].rateLimitState.bytes = <<>>
    /\ accepted["pkA"] = <<0, 0>>

-----------------------------------------------------------------------------
(* SpecLifetime: the connection of a client over time.  The client pkB      *)
(* sends the requests of Spec under the default policy, the clock and the   *)
(* cache timer run, and the embedding program calls addConnection and       *)
(* removeConnection for pkB (server.ts 312-342) between two requests.       *)

\* a faulty addConnection: the windows of the connection replaced are kept
addConnectionKeepState(conns, clientPubkey, namespace, allowedMethods, limits) ==
    [conns EXCEPT ![clientPubkey] =
        Some([pubkey |-> clientPubkey, namespace |-> namespace,
              allowedMethods |-> allowedMethods, limits |-> limits,
              rateLimitState |-> IF conns[clientPubkey] = Null THEN NoRateLimitState
                                 ELSE conns[clientPubkey][1].rateLimitState])]

\* NostrKVServer.addConnection: the map after the call; the new object has
\* no rateLimitState, which checkLimit creates empty
addConnection(conns, clientPubkey, namespace, allowedMethods, limits) ==
    [conns EXCEPT ![clientPubkey] =
        Some([pubkey |-> clientPubkey, namespace |-> namespace,
              allowedMethods |-> allowedMethods, limits |-> limits,
              rateLimitState |-> NoRateLimitState])]

\* NostrKVServer.removeConnection: the map after the call
removeConnection(conns, clientPubkey) == [conns EXCEPT ![clientPubkey] = Null]

\* the policy the embedding program installs
AdminNamespace == <<"a", "p", "p", "B", ":">>

AdminMethods == AllMethods \ {"del"}

AdminLimits ==
    [mps |-> RegistryMps, bps |-> RegistryBps, maxKey |-> ConfigMaxKey,
     maxVal |-> ConfigMaxVal, mgetMax |-> ConfigMgetMax]

AdminStep ==
    UNCHANGED <<now, registry, namespaceManagers, store, cache, tasks, events,
                lastCall, lastResp, accepted, traffic, firstReply, published,
                lastEvent, dmCrypto, env, lastSent, probe, lifecycle>>

AddConnection(clientPubkey, namespace, allowedMethods, limits) ==
    /\ tasks = EmptyBag
    /\ connections' = addConnection(connections, clientPubkey, namespace,
                                    allowedMethods, limits)
    /\ AdminStep

RemoveConnection(clientPubkey) ==
    /\ tasks = EmptyBag
    /\ connections' = removeConnection(connections, clientPubkey)
    /\ AdminStep

MaxLifetimeEvents == 2

ReceiveLifetime(pubkey, request) ==
    /\ events < MaxLifetimeEvents
    /\ tasks = EmptyBag
    /\ Receive(pubkey, request, TRUE)
    /\ UNCHANGED lastEvent

NextLifetime ==
    \/ \E request \in MainRequests : ReceiveLifetime("pkB", request)
    \/ \E task \in BagToSet(tasks) : Complete(task)
    \/ Tick
    \/ Cleanup
    \/ AddConnection("pkB", AdminNamespace, AdminMethods, AdminLimits)
    \/ RemoveConnection("pkB")

SpecLifetime == InitServer({Registry(Null)}) /\ [][NextLifetime]_vars

\* a call of addConnection or removeConnection for the pubkey
AdminCall(pubkey) ==
    \/ AddConnection(pubkey, AdminNamespace, AdminMethods, AdminLimits)
    \/ RemoveConnection(pubkey)

\* C40 (connection lifetime): a step that is no call of addConnection or
\* removeConnection keeps the connection of a pubkey in the map with its
\* namespace, allowed methods and limits, keeps what its request window and
\* its byte records hold of the last 60 s (adding at most the request at
\* hand), and evaluates a request of that pubkey under that namespace and
\* those limits; a call of addConnection or removeConnection leaves no
\* connection or one with empty windows.
C40_Lifetime ==
    [][\A p \in Pubkeys :
          connections[p] # Null =>
              IF AdminCall(p)
              THEN \/ connections'[p] = Null
                   \/ connections'[p][1].rateLimitState = NoRateLimitState
              ELSE /\ connections'[p] # Null
                   /\ LET old == connections[p][1]
                          new == connections'[p][1]
                          W == RequestsInWindow(old.rateLimitState.requests, now')
                          NW == RequestsInWindow(new.rateLimitState.requests, now')
                          B == BytesInWindow(old.rateLimitState.bytes, now')
                          NB == BytesInWindow(new.rateLimitState.bytes, now')
                      IN  /\ new.pubkey = old.pubkey
                          /\ new.namespace = old.namespace
                          /\ new.allowedMethods = old.allowedMethods
                          /\ new.limits = old.limits
                          /\ NW \in {W, Append(W, now)}
                          /\ \/ NB = B
                             \/ /\ Len(NB) = Len(B) + 1
                                /\ SubSeq(NB, 1, Len(B)) = B
                                /\ NB[Len(NB)].timestamp = now
                          /\ (events' = events + 1 /\ lastCall'[1].pubkey = p) =>
                                 /\ lastCall'[1].namespace = old.namespace
                                 /\ lastCall'[1].mps = old.limits.mps]_vars

\* the connection pkB got with its first request was replaced by
\* addConnection: its second request, in the same millisecond, ran under
\* the new policy of one request per minute with an empty window
C40_Witness ==
    /\ events = 2
    /\ tasks = EmptyBag
    /\ accepted["pkB"] = <<0, 0>>
    /\ connections["pkB"] # Null
    /\ connections["pkB"][1].namespace = AdminNamespace
    /\ connections["pkB"][1].limits.mps = RegistryMps
    /\ connections["pkB"][1].rateLimitState.requests = <<0>>
    /\ lastCall # Null
    /\ lastCall[1].stage = "handler"
    /\ lastCall[1].namespace = AdminNamespace

=============================================================================
